---- MODULE Spec2Model ----
(***************************************************************************)
(* PO3 payment file generation (treasurer-tools).                          *)
(*                                                                         *)
(* Spec follows one run of main() in src/main.py: Config() reads the       *)
(* environment, the two tables of raw rows are loaded, process_payments    *)
(* validates and encodes the unpaid rows one by one (expenses, then        *)
(* invoices), main frames the batch with the MH00 header and the MT00      *)
(* trailer, writes the file and starts the attachment upload.  SpecCalls   *)
(* calls the parsers and the encoders on their own, one input at a time,   *)
(* and hands a row to the legacy generator (src/create_po3.py) and to the  *)
(* modular one.  SpecSheet follows runs of main() one after the other over *)
(* one Google Sheets source, with midnight passing in between.  SpecAuth   *)
(* follows SpirisAuth.get_access_token over the passing of time.           *)
(*                                                                         *)
(* Text is a TLA+ string; a line of the file is a string of characters.    *)
(* A Python float is kept as [k, m]: k = "num" with m the value in         *)
(* thousandths of a krona (1 SEK = 1000 m), k = "nan" or k = "inf".        *)
(* A raw cell of a table is a tagged value [t, b, s, n]: a bool, a str, an *)
(* int, a float (n in thousandths) or the NaN pandas puts in a blank cell. *)
(***************************************************************************)
EXTENDS Integers, Sequences, FiniteSets, TLC

(***************************************************************************)
(* Bounds of the model.                                                    *)
(***************************************************************************)
\* at most so many rows in the expense table and the invoice table together
MaxRows == 3

(***************************************************************************)
(* Program constants (src/src/po3/constants.py).                           *)
(***************************************************************************)
PLUSGIRO_CODE == "00"
BANKGIRO_CODE == "05"
EXPENSE_CODE == "09"
CURRENCY == "SEK"
LINE_LENGTH == 80
RECORD_TYPE_HEADER == "MH00"
RECORD_TYPE_TRAILER == "MT00"
RECORD_TYPE_PAYMENT == "PI00"
RECORD_TYPE_NOTE == "BA00"
RECORD_TYPE_BENEFICIARY == "BE01"
COL_PAID == "Utbetalt"

(***************************************************************************)
(* Python's str and int primitives, on strings of characters.              *)
(***************************************************************************)
Min(a, b) == IF a <= b THEN a ELSE b

Char(s, i) == SubSeq(s, i, i)

\* c * n
RECURSIVE Repeat(_, _)
Repeat(c, n) ==
    IF n <= 0 THEN ""
    ELSE LET half == Repeat(c, n \div 2)
         IN  half \o half \o (IF n % 2 = 1 THEN c ELSE "")

\* s.ljust(w): pads on the right, never cuts
Ljust(s, w) == s \o Repeat(" ", w - Len(s))

\* s[:n]
Slice(s, n) == SubSeq(s, 1, Min(n, Len(s)))

\* s.zfill(w): pads with zeros on the left, after a sign; never cuts
Zfill(s, w) ==
    IF Len(s) >= w THEN s
    ELSE IF Len(s) > 0 /\ Char(s, 1) \in {"-", "+"}
         THEN Char(s, 1) \o Repeat("0", w - Len(s)) \o SubSeq(s, 2, Len(s))
         ELSE Repeat("0", w - Len(s)) \o s

Whitespace == {" ", "\t"}

\* s.strip(): from the first to the last character that is no whitespace
Strip(s) ==
    LET n == Len(s)
        Ink(j) == Char(s, j) \notin Whitespace
    IN  IF \A j \in 1..n : ~Ink(j) THEN ""
        ELSE SubSeq(s,
                    CHOOSE j \in 1..n : Ink(j) /\ \A h \in 1..(j - 1) : ~Ink(h),
                    n + 1 - CHOOSE k \in 1..n :
                                /\ Ink(n + 1 - k)
                                /\ \A h \in 1..(k - 1) : ~Ink(n + 1 - h))

\* s.replace(a, b) for a single character a
RECURSIVE Replace(_, _, _)
Replace(s, a, b) ==
    IF Len(s) = 0 THEN ""
    ELSE (IF Char(s, 1) = a THEN b ELSE Char(s, 1))
         \o Replace(SubSeq(s, 2, Len(s)), a, b)

UpperLetters == "ABCDEFGHIJKLMNOPQRSTUVWXYZ"
LowerLetters == "abcdefghijklmnopqrstuvwxyz"

\* the first index of character c in s, or 0
FirstIndex(s, c) ==
    LET at == {j \in 1..Len(s) : Char(s, j) = c}
    IN  IF at = {} THEN 0 ELSE CHOOSE j \in at : \A h \in at : j <= h

\* the lower case letter of every upper case letter
LowerOf ==
    [c \in {Char(UpperLetters, j) : j \in 1..Len(UpperLetters)} |->
        Char(LowerLetters, FirstIndex(UpperLetters, c))]

LowerChar(c) == IF c \in DOMAIN LowerOf THEN LowerOf[c] ELSE c

\* s.lower()
RECURSIVE Lower(_)
Lower(s) ==
    IF Len(s) = 0 THEN ""
    ELSE LowerChar(Char(s, 1)) \o Lower(SubSeq(s, 2, Len(s)))

DigitChars == "0123456789"

IsDigit(c) == c \in {"0", "1", "2", "3", "4", "5", "6", "7", "8", "9"}

\* the value of a decimal digit
DigitValue(c) ==
    CASE c = "0" -> 0 [] c = "1" -> 1 [] c = "2" -> 2 [] c = "3" -> 3
      [] c = "4" -> 4 [] c = "5" -> 5 [] c = "6" -> 6 [] c = "7" -> 7
      [] c = "8" -> 8 [] c = "9" -> 9

\* the value of a string of decimal digits ("" is 0)
RECURSIVE DigitsValue(_)
DigitsValue(s) ==
    IF Len(s) = 0 THEN 0
    ELSE 10 * DigitsValue(SubSeq(s, 1, Len(s) - 1)) + DigitValue(Char(s, Len(s)))

\* str(n) for a natural number n
RECURSIVE NatToStr(_)
NatToStr(n) ==
    IF n < 10 THEN Char(DigitChars, n + 1)
    ELSE NatToStr(n \div 10) \o Char(DigitChars, (n % 10) + 1)

\* str(n) for an int n
IntToStr(n) == IF n < 0 THEN "-" \o NatToStr(-n) ELSE NatToStr(n)

\* the result of a conversion that may raise: ok = FALSE is the exception
Raised == [ok |-> FALSE, v |-> 0]
Returned(x) == [ok |-> TRUE, v |-> x]

\* digits with single underscores between them, as int() and float() read them
DigitGroup(s) ==
    /\ Len(s) > 0
    /\ \A j \in 1..Len(s) : IsDigit(Char(s, j)) \/ Char(s, j) = "_"
    /\ Char(s, 1) # "_"
    /\ Char(s, Len(s)) # "_"
    /\ \A j \in 1..(Len(s) - 1) : ~(Char(s, j) = "_" /\ Char(s, j + 1) = "_")

RECURSIVE DropUnderscores(_)
DropUnderscores(s) ==
    IF Len(s) = 0 THEN ""
    ELSE (IF Char(s, 1) = "_" THEN "" ELSE Char(s, 1))
         \o DropUnderscores(SubSeq(s, 2, Len(s)))

HasSign(s) == Len(s) > 0 /\ Char(s, 1) \in {"-", "+"}
Unsigned(s) == IF HasSign(s) THEN SubSeq(s, 2, Len(s)) ELSE s
Signum(s) == IF Len(s) > 0 /\ Char(s, 1) = "-" THEN -1 ELSE 1

\* int(s) for a str s: ValueError unless s is an optional sign and digits,
\* surrounded by optional whitespace
PyInt(s) ==
    LET t == Strip(s)
        u == Unsigned(t)
    IN  IF DigitGroup(u)
        THEN Returned(Signum(t) * DigitsValue(DropUnderscores(u)))
        ELSE Raised

(***************************************************************************)
(* Python floats, in thousandths.                                          *)
(***************************************************************************)
\* x kronor in thousandths
Thousandths(x) == 1000 * x
Kronor(m) == m \div 1000
Fraction(m) == m % 1000
\* the digits of a fraction of thousandths
FractionZeros == "000"

Num(m) == [k |-> "num", m |-> m]
NaNFloat == [k |-> "nan", m |-> 0]
InfFloat(sign) == [k |-> "inf", m |-> sign]

\* the fraction digits f as thousandths: "5" is 500, "005" is 5
PadFraction(f) == Slice(f \o FractionZeros, Len(FractionZeros))

\* float(s) for a str s: sign, digits, at most one decimal point, or nan/inf
PyFloat(s) ==
    LET t == Strip(s)
        u == Unsigned(t)
        dot == FirstIndex(u, ".")
        ip == IF dot = 0 THEN u ELSE SubSeq(u, 1, dot - 1)
        fp == IF dot = 0 THEN "" ELSE SubSeq(u, dot + 1, Len(u))
        shape == /\ ip = "" \/ DigitGroup(ip)
                 /\ fp = "" \/ DigitGroup(fp)
                 /\ ~(ip = "" /\ fp = "")
        f == DropUnderscores(fp)
    IN  IF Lower(u) = "nan" THEN Returned(NaNFloat)
        ELSE IF Lower(u) \in {"inf", "infinity"} THEN Returned(InfFloat(Signum(t)))
        ELSE IF shape /\ Len(f) <= Len(FractionZeros)
        THEN Returned(Num(Signum(t) * (Thousandths(DigitsValue(DropUnderscores(ip)))
                                       + DigitsValue(PadFraction(f)))))
        ELSE Raised

\* the fraction digits of repr(x): trailing zeros dropped, one digit kept
RECURSIVE TrimZeros(_)
TrimZeros(f) ==
    IF Len(f) > 1 /\ Char(f, Len(f)) = "0"
    THEN TrimZeros(SubSeq(f, 1, Len(f) - 1))
    ELSE f

Abs(n) == IF n < 0 THEN -n ELSE n

\* str(x) for a float x
FloatToStr(x) ==
    IF x.k = "nan" THEN "nan"
    ELSE IF x.k = "inf" THEN (IF x.m < 0 THEN "-inf" ELSE "inf")
    ELSE (IF x.m < 0 THEN "-" ELSE "")
         \o NatToStr(Kronor(Abs(x.m)))
         \o "."
         \o TrimZeros(Zfill(NatToStr(Fraction(Abs(x.m))), Len(FractionZeros)))

\* round(x), for x = n / d with d > 0: to the nearest integer, ties to even
Round(n, d) ==
    LET q == n \div d
        r == n % d
    IN  IF 2 * r < d THEN q
        ELSE IF 2 * r > d THEN q + 1
        ELSE IF q % 2 = 0 THEN q ELSE q + 1

(***************************************************************************)
(* Raw cells and rows of the two tables.                                   *)
(***************************************************************************)
BoolCell(b) == [t |-> "bool", b |-> b, s |-> "", n |-> 0]
StrCell(s) == [t |-> "str", b |-> FALSE, s |-> s, n |-> 0]
IntCell(n) == [t |-> "int", b |-> FALSE, s |-> "", n |-> n]
\* a float cell; n is the value in thousandths
FloatCell(n) == [t |-> "float", b |-> FALSE, s |-> "", n |-> n]
\* the NaN (a float) that pandas.read_csv puts in a blank cell
NaNCell == [t |-> "nan", b |-> FALSE, s |-> "", n |-> 0]

\* bool(v)
Truthy(v) ==
    CASE v.t = "bool" -> v.b
      [] v.t = "str" -> v.s # ""
      [] v.t = "int" -> v.n # 0
      [] v.t = "float" -> v.n # 0
      [] v.t = "nan" -> TRUE

\* str(v)
StrOf(v) ==
    CASE v.t = "bool" -> (IF v.b THEN "True" ELSE "False")
      [] v.t = "str" -> v.s
      [] v.t = "int" -> IntToStr(v.n)
      [] v.t = "float" -> FloatToStr(Num(v.n))
      [] v.t = "nan" -> "nan"

ExpenseRaw(approved, paid, amount, activity, clearing, account, name, description) ==
    [Godkant |-> approved, Utbetalt |-> paid, Belopp |-> amount,
     Verksamhet |-> activity, Clearingnummer |-> clearing,
     Kontonummer |-> account, Ditt_namn |-> name,
     Kort_beskrivning_av_kop |-> description]

InvoiceRaw(approved, paid, amount, activity, type, account, ocr, name, description, recipient) ==
    [Godkant |-> approved, Utbetalt |-> paid, Belopp |-> amount,
     Verksamhet |-> activity, Mottagarkontotyp |-> type,
     Mottagarkontonummer |-> account, OCR_meddelande |-> ocr,
     Ditt_namn |-> name, Kort_beskrivning_av_kop |-> description,
     Mottagare_namn |-> recipient]

(***************************************************************************)
(* Field validators of the row models (src/models.py).                     *)
(***************************************************************************)
_parse_boolean(value) ==
    IF value.t = "bool" THEN value.b
    ELSE IF value.t = "str" THEN Lower(Strip(value.s)) = "true"
    ELSE Truthy(value)

parse_booleans(v) == _parse_boolean(v)

\* float(v) for an int or a float v (a bool is an int)
FloatOf(v) ==
    CASE v.t = "bool" -> Num(Thousandths(IF v.b THEN 1 ELSE 0))
      [] v.t = "int" -> Num(Thousandths(v.n))
      [] v.t = "float" -> Num(v.n)
      [] v.t = "nan" -> NaNFloat

parse_amount(v) ==
    IF v.t \in {"bool", "int", "float", "nan"}
    THEN Returned(FloatOf(v))
    ELSE PyFloat(Replace(StrOf(v), ",", "."))

parse_integers(v) ==
    IF v.t = "int" THEN Returned(v.n)
    ELSE IF v.t = "bool" THEN Returned(IF v.b THEN 1 ELSE 0)
    ELSE PyInt(Strip(Replace(StrOf(v), ",", "")))

strip_strings(v) == Strip(StrOf(v))

\* a row the model classes refuse (pydantic's ValidationError, or the
\* ValueError of a field validator)
Invalid == [valid |-> FALSE]

ExpenseRow(row) ==
    LET amount == parse_amount(row.Belopp)
        clearing == parse_integers(row.Clearingnummer)
        account == parse_integers(row.Kontonummer)
    IN  IF amount.ok /\ clearing.ok /\ account.ok
        THEN [valid |-> TRUE,
              Godkant |-> parse_booleans(row.Godkant),
              Utbetalt |-> parse_booleans(row.Utbetalt),
              Belopp |-> amount.v,
              Verksamhet |-> strip_strings(row.Verksamhet),
              Clearingnummer |-> clearing.v,
              Kontonummer |-> account.v,
              Ditt_namn |-> strip_strings(row.Ditt_namn),
              Kort_beskrivning_av_kop |-> strip_strings(row.Kort_beskrivning_av_kop)]
        ELSE Invalid

AccountTypes == {"Plusgiro", "Bankgiro"}

InvoiceRow(row) ==
    LET amount == parse_amount(row.Belopp)
        account == parse_integers(row.Mottagarkontonummer)
        type == strip_strings(row.Mottagarkontotyp)
    IN  IF amount.ok /\ account.ok /\ type \in AccountTypes
        THEN [valid |-> TRUE,
              Godkant |-> parse_booleans(row.Godkant),
              Utbetalt |-> parse_booleans(row.Utbetalt),
              Belopp |-> amount.v,
              Verksamhet |-> strip_strings(row.Verksamhet),
              Mottagarkontotyp |-> type,
              Mottagarkontonummer |-> account.v,
              OCR_meddelande |-> strip_strings(row.OCR_meddelande),
              Ditt_namn |-> strip_strings(row.Ditt_namn),
              Kort_beskrivning_av_kop |-> strip_strings(row.Kort_beskrivning_av_kop),
              Mottagare_namn |-> strip_strings(row.Mottagare_namn)]
        ELSE Invalid

(***************************************************************************)
(* Validation (src/validators.py): the model, or None.                     *)
(***************************************************************************)
None == [valid |-> FALSE]

\* a validator that forgets the approval flag
validate_expense_unapproved(row) ==
    LET expense == ExpenseRow(row)
    IN  IF expense.valid THEN expense ELSE None

validate_expense(row) ==
    LET expense == ExpenseRow(row)
    IN  IF expense.valid /\ expense.Godkant THEN expense ELSE None

validate_invoice(row) ==
    LET invoice == InvoiceRow(row)
    IN  IF invoice.valid /\ invoice.Godkant THEN invoice ELSE None

(***************************************************************************)
(* Formatting (src/formatters.py).                                         *)
(***************************************************************************)
\* round(amount * 100) raises for a NaN (ValueError) or an infinity
\* (OverflowError)
RoundRaises(amount) == amount.k # "num"

\* round(amount * 100): amount is m thousandths, so amount * 100 is m / 10
Ore(amount) == Round(amount.m, 10)

format_amount(amount, length) == Zfill(IntToStr(Ore(amount)), length)

create_note(activity, description, name) ==
    activity \o " " \o description \o " " \o name

create_message(activity, description) == activity \o " " \o description

\* datetime.datetime.now().strftime("%Y%m%d")
Strftime(now) ==
    Zfill(IntToStr(now.year), 4) \o Zfill(IntToStr(now.month), 2)
        \o Zfill(IntToStr(now.day), 2)

generate_start_line(org_number, account_number) ==
    RECORD_TYPE_HEADER
        \o Repeat(" ", 8)
        \o org_number
        \o Repeat(" ", 12)
        \o Ljust(account_number, 10)
        \o CURRENCY
        \o Repeat(" ", 6)
        \o CURRENCY
        \o Repeat(" ", 24)

\* a trailer that counts the lines, not the records
generate_end_line_of_lines(rows, total) ==
    RECORD_TYPE_TRAILER
        \o Repeat(" ", 25)
        \o Zfill(IntToStr(3 * rows), 7)
        \o format_amount(total, 15)
        \o Repeat(" ", 29)

generate_end_line(rows, total) ==
    RECORD_TYPE_TRAILER
        \o Repeat(" ", 25)
        \o Zfill(IntToStr(rows), 7)
        \o format_amount(total, 15)
        \o Repeat(" ", 29)

generate_pi00_expense(clearing_number, account_number, amount, message, now) ==
    RECORD_TYPE_PAYMENT
        \o EXPENSE_CODE
        \o Ljust(IntToStr(clearing_number), 5)
        \o Ljust(IntToStr(account_number), 11)
        \o "  "
        \o Strftime(now)
        \o format_amount(amount, 13)
        \o Slice(Ljust(message, 12), 12)
        \o Repeat(" ", 23)

generate_pi00_giro(account_number, amount, ocr, giro_code, now) ==
    RECORD_TYPE_PAYMENT
        \o giro_code
        \o Repeat(" ", 5)
        \o Ljust(IntToStr(account_number), 11)
        \o "  "
        \o Strftime(now)
        \o format_amount(amount, 13)
        \o Ljust(ocr, 25)
        \o Repeat(" ", 10)

\* a note line whose fields are padded, never cut
generate_ba00_padded(note) ==
    RECORD_TYPE_NOTE
        \o Ljust(note, 18)
        \o Repeat(" ", 9)
        \o Ljust(note, 35)
        \o Repeat(" ", 14)

generate_ba00(note) ==
    RECORD_TYPE_NOTE
        \o Slice(Ljust(note, 18), 18)
        \o Repeat(" ", 9)
        \o Slice(Ljust(note, 35), 35)
        \o Repeat(" ", 14)

generate_be01(recipient) ==
    RECORD_TYPE_BENEFICIARY \o Repeat(" ", 18) \o Ljust(recipient, 58)

(***************************************************************************)
(* Payment lines of one record (src/src/po3/payment_generator.py).         *)
(***************************************************************************)
\* a triple whose note line carries the date too
generate_lines_dated_note(expense, now) ==
    <<generate_pi00_expense(expense.Clearingnummer, expense.Kontonummer,
                            expense.Belopp,
                            create_message(expense.Verksamhet,
                                           expense.Kort_beskrivning_av_kop),
                            now),
      generate_ba00(Strftime(now) \o " "
                        \o create_note(expense.Verksamhet,
                                       expense.Kort_beskrivning_av_kop,
                                       expense.Ditt_namn)),
      generate_be01(expense.Ditt_namn)>>

generate_lines_for_expense(expense, now) ==
    <<generate_pi00_expense(expense.Clearingnummer, expense.Kontonummer,
                            expense.Belopp,
                            create_message(expense.Verksamhet,
                                           expense.Kort_beskrivning_av_kop),
                            now),
      generate_ba00(create_note(expense.Verksamhet,
                                expense.Kort_beskrivning_av_kop,
                                expense.Ditt_namn)),
      generate_be01(expense.Ditt_namn)>>

\* the sub-code of Plusgiro, whatever the account type
giro_code_plusgiro(invoice) == PLUSGIRO_CODE

giro_code(invoice) ==
    IF invoice.Mottagarkontotyp = "Plusgiro" THEN PLUSGIRO_CODE ELSE BANKGIRO_CODE

\* the payment line alone, without its note and beneficiary lines
generate_lines_payment_only(invoice, now) ==
    <<generate_pi00_giro(invoice.Mottagarkontonummer, invoice.Belopp,
                         invoice.OCR_meddelande, giro_code(invoice), now)>>

\* the beneficiary line put before the note line
generate_lines_beneficiary_first(invoice, now) ==
    <<generate_pi00_giro(invoice.Mottagarkontonummer, invoice.Belopp,
                         invoice.OCR_meddelande, giro_code(invoice), now),
      generate_be01(invoice.Mottagare_namn),
      generate_ba00(create_note(invoice.Verksamhet,
                                invoice.Kort_beskrivning_av_kop,
                                invoice.Ditt_namn))>>

generate_lines_for_invoice(invoice, now) ==
    <<generate_pi00_giro(invoice.Mottagarkontonummer, invoice.Belopp,
                         invoice.OCR_meddelande, giro_code(invoice), now),
      generate_ba00(create_note(invoice.Verksamhet,
                                invoice.Kort_beskrivning_av_kop,
                                invoice.Ditt_namn)),
      generate_be01(invoice.Mottagare_namn)>>

(***************************************************************************)
(* The inputs of a run: the rows a table can hold, the configuration, the  *)
(* date.  The amounts are written with thousandths whose sums never end in *)
(* 5, so that round(amount * 100) of the double equals the rounding of the *)
(* exact product.                                                          *)
(***************************************************************************)
\* Scenario A of the specification: approved, unpaid, 150.00
ExpenseA ==
    ExpenseRaw(BoolCell(TRUE), BoolCell(FALSE), FloatCell(150000),
               StrCell("Resa"), IntCell(3300), IntCell(1234567),
               StrCell("Anna Andersson"), StrCell("Tag"))

\* every cell a text, as a sheet of strings gives them
ExpenseText ==
    ExpenseRaw(StrCell(" TRUE "), StrCell("false"), StrCell("10.004"),
               StrCell(" Styrelsen"), StrCell("3,300"), StrCell(" 7654321 "),
               StrCell("Bo Ek "), StrCell("Konferensresa till Stockholm"))

ExpenseNotApproved == [ExpenseA EXCEPT !.Godkant = StrCell("false")]

ExpensePaid == [ExpenseA EXCEPT !.Utbetalt = StrCell("True")]

\* a clearing number of six digits
ExpenseWide == [ExpenseA EXCEPT !.Clearingnummer = IntCell(123456)]

\* an activity of blanks only
ExpenseBlank == [ExpenseA EXCEPT !.Verksamhet = StrCell("  ")]

\* the amount cell left empty in the CSV file
ExpenseNoAmount == [ExpenseA EXCEPT !.Belopp = NaNCell]

\* a clearing number that is no integer
ExpenseBadInt == [ExpenseA EXCEPT !.Clearingnummer = StrCell("33a0")]

\* a negative amount
ExpenseNegative == [ExpenseA EXCEPT !.Belopp = FloatCell(-150000)]

ExpenseRows ==
    {ExpenseA, ExpenseText, ExpenseNotApproved, ExpensePaid, ExpenseWide,
     ExpenseBlank, ExpenseNoAmount, ExpenseBadInt, ExpenseNegative}

\* Scenario B of the specification: Plusgiro, 2500.50
InvoiceB ==
    InvoiceRaw(BoolCell(TRUE), BoolCell(FALSE), FloatCell(2500500),
               StrCell("Sektionen"), StrCell("Plusgiro"), IntCell(98765),
               StrCell("OCR123"), StrCell("Cia Dahl"), StrCell("Lokalhyra"),
               StrCell("Hyresbolaget AB"))

\* every cell a text; Bankgiro, 10.004
InvoiceBankgiro ==
    InvoiceRaw(StrCell("true"), BoolCell(FALSE), StrCell("10.004"),
               StrCell("Festeriet"), StrCell(" Bankgiro "), StrCell("50501055"),
               StrCell("1234567890123456789012345"), StrCell("Eva Falk"),
               StrCell("Dekorationer"), StrCell("Partyland"))

InvoiceNotApproved == [InvoiceB EXCEPT !.Godkant = StrCell("yes")]

InvoicePaid == [InvoiceB EXCEPT !.Utbetalt = BoolCell(TRUE)]

\* an account type that is neither Plusgiro nor Bankgiro
InvoiceBadType == [InvoiceB EXCEPT !.Mottagarkontotyp = StrCell("Postgiro")]

\* an amount with a thousands comma
InvoiceBadAmount == [InvoiceB EXCEPT !.Belopp = StrCell("1,234.50")]

InvoiceRows ==
    {InvoiceB, InvoiceBankgiro, InvoiceNotApproved, InvoicePaid,
     InvoiceBadType, InvoiceBadAmount}

SeqsUpTo(S, n) == UNION {[1..k -> S] : k \in 0..n}

(***************************************************************************)
(* The environment and the configuration (src/src/po3/config.py).  The     *)
(* variables that name the data source (SHEET_NAME, EXPENSE_PATH, ...) are *)
(* taken to be set.                                                        *)
(***************************************************************************)
\* os.getenv(key) of a variable that is not set, and of one set to s
Unset == [set |-> FALSE, v |-> ""]
Set(s) == [set |-> TRUE, v |-> s]

\* os.getenv(key, default)
Getenv(value, default) == IF value.set THEN value.v ELSE default

\* the upper case letter of every lower case letter
UpperOf ==
    [c \in {Char(LowerLetters, j) : j \in 1..Len(LowerLetters)} |->
        Char(UpperLetters, FirstIndex(LowerLetters, c))]

UpperChar(c) == IF c \in DOMAIN UpperOf THEN UpperOf[c] ELSE c

\* s.upper()
RECURSIVE Upper(_)
Upper(s) ==
    IF Len(s) = 0 THEN ""
    ELSE UpperChar(Char(s, 1)) \o Upper(SubSeq(s, 2, Len(s)))

\* the environments of a run
Envs ==
    [ORG_NUMBER : {Unset, Set(""), Set("5560001234")},
     ACCOUNT_NUMBER : {Unset, Set(""), Set("1234567")},
     USE_GSHEETS : {Unset, Set("true")}]

\* a lookup that only refuses the variable that is not set
_get_required_unset_only(value) ==
    IF ~value.set THEN Raised ELSE Returned(value.v)

\* Config._get_required: "if not value: raise ValueError"
_get_required(value) ==
    IF ~value.set \/ value.v = "" THEN Raised ELSE Returned(value.v)

\* Config(): the configuration, or the ValueError of the first variable
\* that is missing
Config(e) ==
    LET org == _get_required(e.ORG_NUMBER)
        account == _get_required(e.ACCOUNT_NUMBER)
    IN  IF ~org.ok THEN Raised
        ELSE IF ~account.ok THEN Raised
        ELSE Returned([org_number |-> org.v,
                       account_number |-> account.v,
                       use_gsheets |-> Upper(Getenv(e.USE_GSHEETS, "FALSE")) = "TRUE"])

Dates == {[year |-> 2026, month |-> 12, day |-> 31]}

(***************************************************************************)
(* The state of a run of main (src/main.py).                               *)
(***************************************************************************)
VARIABLES
    env,             \* the environment variables
    expenses,        \* the expense table, as loaded
    invoices,        \* the invoice table, as loaded
    config,          \* Config()
    clock,           \* the date datetime.now() returns
    pc,              \* where main is
    pos,             \* the position of the loop in the unpaid rows
    output_lines,    \* process_payments: the lines so far
    number_of_rows,  \* process_payments: the records so far
    total_cost,      \* process_payments: the sum so far, a float
    encoded,         \* history: the rows encoded so far, [family, index]
    ws_updates,      \* the update_cell calls that succeeded
    files,           \* the line sequences write_po3_file has written
    uploads,         \* the calls of upload_attachments_to_spiris
    printed,         \* what upload_attachments_to_spiris ended with
    error,           \* the exception main ended with, or ""
    call,            \* a call of one function on its own: name, input, output
    source,          \* what the sheets, or the CSV files, hold
    file_names,      \* the names write_po3_file was given, one for each file
    attempts,        \* the upload_*_attachments calls of the upload pass
    runs,            \* the runs of main that have been started
    marked,          \* history: the cells the earlier runs have marked paid
    tokens,          \* SpirisAuth: self.tokens
    tokens_file,     \* SpirisAuth: what .spiris_tokens.json holds
    time             \* SpirisAuth: the time datetime.now() returns

vars ==
    <<env, expenses, invoices, config, clock, pc, pos, output_lines,
      number_of_rows, total_cost, encoded, ws_updates, files, uploads,
      printed, error, call, source, file_names, attempts, runs, marked,
      tokens, tokens_file, time>>

\* the state of a SpirisAuth, which no step of main touches
auth == <<tokens, tokens_file, time>>

\* no call of a function on its own
NoCall == [f |-> "none"]

\* main: the paid column as booleans
parse_bool_col(x) ==
    IF x.t = "str" THEN Lower(Strip(x.s)) = "true" ELSE Truthy(x)

\* a row of the table after main has rewritten its paid column
Normalized(row) == [row EXCEPT !.Utbetalt = BoolCell(parse_bool_col(@))]

\* the unpaid rows taken from the last to the first
UnpaidLastFirst(table) ==
    LET n == Cardinality({j \in 1..Len(table) :
                             ~parse_bool_col(table[j].Utbetalt)})
        up == SelectSeq([j \in 1..Len(table) |-> j],
                        LAMBDA j : ~parse_bool_col(table[j].Utbetalt))
    IN  [k \in 1..n |-> up[n + 1 - k]]

\* every row, paid or not
Unfiltered(table) == [j \in 1..Len(table) |-> j]

\* expenses[~expenses[COL_PAID]]: the indexes of the unpaid rows, in table
\* order (index j is DataFrame index j - 1)
Unpaid(table) ==
    SelectSeq([j \in 1..Len(table) |-> j],
              LAMBDA j : ~parse_bool_col(table[j].Utbetalt))

\* total_cost += amount
AddFloat(a, b) == Num(a.m + b.m)

\* a write-back that forgets the header row of the sheet
UpdateCellNoHeader(ws, j) ==
    [ws |-> ws, row |-> (j - 1) + 1, col |-> COL_PAID, value |-> TRUE]

\* ws.update_cell(index + 2, columns.get_loc(COL_PAID) + 1, True), index
\* being j - 1; the column is named, not counted
UpdateCell(ws, j) ==
    [ws |-> ws, row |-> (j - 1) + 2, col |-> COL_PAID, value |-> TRUE]

\* a source nothing has been read from, and one that holds two tables
Unread == [read |-> FALSE]
Holding(e, i) == [read |-> TRUE, expenses |-> e, invoices |-> i]

\* the cell get_all_records returns for a cell update_cell has set to True
Checked == StrCell("TRUE")

\* the source after the update_cell u
Updated(src, u) ==
    IF u.ws = "expenses"
    THEN [src EXCEPT !.expenses[u.row - 1][u.col] = Checked]
    ELSE [src EXCEPT !.invoices[u.row - 1][u.col] = Checked]

\* no SpirisAuth has been made
NoTokens == [cached |-> FALSE]

\* main is entered: nothing is configured, nothing is loaded
Init ==
    /\ env \in Envs
    /\ expenses = <<>>
    /\ invoices = <<>>
    /\ config = None
    /\ clock \in Dates
    /\ pc = "config"
    /\ pos = 1
    /\ output_lines = <<>>
    /\ number_of_rows = 0
    /\ total_cost = Num(0)
    /\ encoded = <<>>
    /\ ws_updates = <<>>
    /\ files = <<>>
    /\ uploads = 0
    /\ printed = ""
    /\ error = ""
    /\ call = NoCall
    /\ source = Unread
    /\ file_names = <<>>
    /\ attempts = <<>>
    /\ runs = 1
    /\ marked = {}
    /\ tokens = NoTokens
    /\ tokens_file = NoTokens
    /\ time = 0

\* config = Config(); its ValueError ends main
LoadConfig ==
    /\ pc = "config"
    /\ LET c == Config(env)
       IN  IF c.ok
           THEN /\ config' = c.v
                /\ pc' = "load_data"
                /\ UNCHANGED error
           ELSE /\ pc' = "failed"
                /\ error' = "ValueError"
                /\ UNCHANGED config
    /\ UNCHANGED <<env, expenses, invoices, clock, pos, output_lines,
                   number_of_rows, total_cost, encoded, ws_updates, files,
                   uploads, printed, call, source, file_names, attempts,
                   runs, marked, auth>>

\* load_data_from_gsheets(config) or load_data_from_csv(config): the two
\* tables the source holds, which are any two tables when nothing has been
\* read from it before
LoadData ==
    /\ pc = "load_data"
    /\ IF source.read
       THEN /\ expenses' = source.expenses
            /\ invoices' = source.invoices
       ELSE \E ne \in 0..MaxRows :
                /\ expenses' \in [1..ne -> ExpenseRows]
                /\ invoices' \in SeqsUpTo(InvoiceRows, MaxRows - ne)
    /\ source' = Holding(expenses', invoices')
    /\ pc' = "process_expenses"
    /\ UNCHANGED <<env, config, clock, pos, output_lines, number_of_rows,
                   total_cost, encoded, ws_updates, files, uploads, printed,
                   error, call, file_names, attempts, runs, marked, auth>>

\* the outcomes of ws.update_cell: it returns, or it raises (the API of
\* the sheet refuses or cannot be reached)
UpdateCellOutcomes == {"returned", "APIError"}

\* one turn of the expense loop of process_payments
ProcessExpense ==
    /\ pc = "process_expenses"
    /\ pos <= Len(Unpaid(expenses))
    /\ LET j == Unpaid(expenses)[pos]
           expense == validate_expense(Normalized(expenses[j]))
       IN  IF ~expense.valid
           THEN /\ pos' = pos + 1
                /\ UNCHANGED <<pc, output_lines, number_of_rows, total_cost,
                               encoded, ws_updates, error, source>>
           ELSE IF RoundRaises(expense.Belopp)
           THEN /\ pc' = "failed"
                /\ error' = "ValueError"
                /\ UNCHANGED <<pos, output_lines, number_of_rows, total_cost,
                               encoded, ws_updates, source>>
           ELSE /\ output_lines' =
                       output_lines \o generate_lines_for_expense(expense, clock)
                /\ total_cost' = AddFloat(total_cost, expense.Belopp)
                /\ number_of_rows' = number_of_rows + 1
                /\ encoded' = Append(encoded, [family |-> "expense", index |-> j])
                /\ IF config.use_gsheets
                   THEN \E outcome \in UpdateCellOutcomes :
                            IF outcome = "returned"
                            THEN /\ ws_updates' =
                                        Append(ws_updates, UpdateCell("expenses", j))
                                 /\ source' =
                                        Updated(source, UpdateCell("expenses", j))
                                 /\ pos' = pos + 1
                                 /\ UNCHANGED <<pc, error>>
                            ELSE /\ pc' = "failed"
                                 /\ error' = outcome
                                 /\ UNCHANGED <<pos, ws_updates, source>>
                   ELSE /\ pos' = pos + 1
                        /\ UNCHANGED <<pc, error, ws_updates, source>>
    /\ UNCHANGED <<env, expenses, invoices, config, clock, files, uploads,
                   printed, call, file_names, attempts, runs, marked, auth>>

\* the expense loop is over: the invoice loop starts
ExpensesDone ==
    /\ pc = "process_expenses"
    /\ pos > Len(Unpaid(expenses))
    /\ pc' = "process_invoices"
    /\ pos' = 1
    /\ UNCHANGED <<env, expenses, invoices, config, clock, output_lines,
                   number_of_rows, total_cost, encoded, ws_updates, files,
                   uploads, printed, error, call, source, file_names,
                   attempts, runs, marked, auth>>

\* one turn of the invoice loop of process_payments
ProcessInvoice ==
    /\ pc = "process_invoices"
    /\ pos <= Len(Unpaid(invoices))
    /\ LET j == Unpaid(invoices)[pos]
           invoice == validate_invoice(Normalized(invoices[j]))
       IN  IF ~invoice.valid
           THEN /\ pos' = pos + 1
                /\ UNCHANGED <<pc, output_lines, number_of_rows, total_cost,
                               encoded, ws_updates, error, source>>
           ELSE IF RoundRaises(invoice.Belopp)
           THEN /\ pc' = "failed"
                /\ error' = "ValueError"
                /\ UNCHANGED <<pos, output_lines, number_of_rows, total_cost,
                               encoded, ws_updates, source>>
           ELSE /\ output_lines' =
                       output_lines \o generate_lines_for_invoice(invoice, clock)
                /\ total_cost' = AddFloat(total_cost, invoice.Belopp)
                /\ number_of_rows' = number_of_rows + 1
                /\ encoded' = Append(encoded, [family |-> "invoice", index |-> j])
                /\ IF config.use_gsheets
                   THEN \E outcome \in UpdateCellOutcomes :
                            IF outcome = "returned"
                            THEN /\ ws_updates' =
                                        Append(ws_updates, UpdateCell("invoices", j))
                                 /\ source' =
                                        Updated(source, UpdateCell("invoices", j))
                                 /\ pos' = pos + 1
                                 /\ UNCHANGED <<pc, error>>
                            ELSE /\ pc' = "failed"
                                 /\ error' = outcome
                                 /\ UNCHANGED <<pos, ws_updates, source>>
                   ELSE /\ pos' = pos + 1
                        /\ UNCHANGED <<pc, error, ws_updates, source>>
    /\ UNCHANGED <<env, expenses, invoices, config, clock, files, uploads,
                   printed, call, file_names, attempts, runs, marked, auth>>

\* process_payments returns (output_lines, number_of_rows, total_cost)
InvoicesDone ==
    /\ pc = "process_invoices"
    /\ pos > Len(Unpaid(invoices))
    /\ pc' = "check_payments"
    /\ UNCHANGED <<env, expenses, invoices, config, clock, pos, output_lines,
                   number_of_rows, total_cost, encoded, ws_updates, files,
                   uploads, printed, error, call, source, file_names,
                   attempts, runs, marked, auth>>

\* a test that never finds the batch empty
NegativeRowCount(rows) == rows < 0

\* main: "if number_of_rows == 0"
NoPaymentsToProcess(rows) == rows = 0

\* main returns without a file
NoPayments ==
    /\ pc = "check_payments"
    /\ NoPaymentsToProcess(number_of_rows)
    /\ pc' = "returned"
    /\ UNCHANGED <<env, expenses, invoices, config, clock, pos, output_lines,
                   number_of_rows, total_cost, encoded, ws_updates, files,
                   uploads, printed, error, call, source, file_names,
                   attempts, runs, marked, auth>>

\* the header appended, not inserted at the front
HeaderAppended(lines, header, trailer) == lines \o <<header>> \o <<trailer>>

\* output_lines.insert(0, header); output_lines.append(trailer)
WithHeaderAndTrailer(lines, header, trailer) == <<header>> \o lines \o <<trailer>>

AddHeaderAndTrailer ==
    /\ pc = "check_payments"
    /\ ~NoPaymentsToProcess(number_of_rows)
    /\ output_lines' =
           WithHeaderAndTrailer(
               output_lines,
               generate_start_line(config.org_number, config.account_number),
               generate_end_line(number_of_rows, total_cost))
    /\ pc' = "write_file"
    /\ UNCHANGED <<env, expenses, invoices, config, clock, pos, number_of_rows,
                   total_cost, encoded, ws_updates, files, uploads, printed,
                   error, call, source, file_names, attempts, runs, marked,
                   auth>>

\* the outcomes of write_po3_file: the file is written, or makedirs, open
\* or write raises
WriteOutcomes == {"written", "OSError"}

\* main: file_name = f"utlagg_{datetime.datetime.now().strftime('%Y%m%d')}_po3.txt"
FileName(now) == "utlagg_" \o Strftime(now) \o "_po3.txt"

\* file_name is computed from the clock, then write_po3_file(file_name,
\* output_lines) is called
WritePo3File ==
    /\ pc = "write_file"
    /\ \E outcome \in WriteOutcomes :
           IF outcome = "written"
           THEN /\ files' = Append(files, output_lines)
                /\ file_names' = Append(file_names, FileName(clock))
                /\ pc' = "upload"
                /\ UNCHANGED error
           ELSE /\ pc' = "failed"
                /\ error' = outcome
                /\ UNCHANGED <<files, file_names>>
    /\ UNCHANGED <<env, expenses, invoices, config, clock, pos, output_lines,
                   number_of_rows, total_cost, encoded, ws_updates, uploads,
                   printed, call, source, attempts, runs, marked, auth>>

\* what can happen inside upload_attachments_to_spiris: the pipeline is
\* switched off (UPLOAD_TO_SPIRIS), it runs to its end, the integrations
\* cannot be imported, or a client, a download or an upload raises
UploadEvents == {"disabled", "complete", "ImportError", "Exception"}

\* an upload that lets the exception of a client out
upload_attachments_uncaught(event) ==
    CASE event = "disabled" -> [raised |-> FALSE, printed |-> ""]
      [] event = "complete" -> [raised |-> FALSE, printed |-> "complete"]
      [] event = "ImportError" -> [raised |-> FALSE, printed |-> "Warning"]
      [] event = "Exception" -> [raised |-> TRUE, printed |-> ""]

\* upload_attachments_to_spiris: every exception is caught and printed as a
\* warning
upload_attachments_to_spiris(event) ==
    CASE event = "disabled" -> [raised |-> FALSE, printed |-> ""]
      [] event = "complete" -> [raised |-> FALSE, printed |-> "complete"]
      [] event = "ImportError" -> [raised |-> FALSE, printed |-> "Warning"]
      [] event = "Exception" -> [raised |-> FALSE, printed |-> "Warning"]

\* the columns that hold the link to the receipt and to the invoice, which
\* are the aliases of the fields Ladda_upp_bild_pa_kvitto and
\* Ladda_upp_fakturan (src/models.py)
EXPENSE_ATTACHMENT == "Ladda upp bild pa kvitto"
INVOICE_ATTACHMENT == "Ladda upp fakturan"

\* a row with one more column
WithColumn(row, name, cell) == row @@ [c \in {name} |-> cell]

\* the fields of the two models; the rows of the model name their columns
\* by the fields, but for the attachment column, which has its alias
ExpenseFields ==
    {"Godkant", "Utbetalt", "Belopp", "Verksamhet", "Clearingnummer",
     "Kontonummer", "Ditt_namn", "Kort_beskrivning_av_kop",
     "Ladda_upp_bild_pa_kvitto"}

InvoiceFields ==
    {"Godkant", "Utbetalt", "Belopp", "Verksamhet", "Mottagarkontotyp",
     "Mottagarkontonummer", "OCR_meddelande", "Ditt_namn",
     "Kort_beskrivning_av_kop", "Mottagare_namn", "Ladda_upp_fakturan"}

\* ConfigDict(extra="allow", populate_by_name=True): the columns that no
\* field takes, by its name or by its alias, are kept as extra attributes
Extra(row, fields, alias) == DOMAIN row \ (fields \cup {alias})

\* hasattr(model, name) for the model made of row: name is a field or an
\* extra attribute
Hasattr(row, fields, alias, name) == name \in fields \cup Extra(row, fields, alias)

\* the two loops of upload_attachments_to_spiris: the rows for which
\* upload_expense_attachments and upload_invoice_attachments are called
UploadCalls(exp, inv) ==
    LET e == SelectSeq(Unpaid(exp),
                       LAMBDA j : /\ validate_expense(Normalized(exp[j])).valid
                                  /\ Hasattr(exp[j], ExpenseFields,
                                             EXPENSE_ATTACHMENT, EXPENSE_ATTACHMENT))
        i == SelectSeq(Unpaid(inv),
                       LAMBDA j : /\ validate_invoice(Normalized(inv[j])).valid
                                  /\ Hasattr(inv[j], InvoiceFields,
                                             INVOICE_ATTACHMENT, INVOICE_ATTACHMENT))
    IN  [k \in 1..Len(e) |-> [family |-> "expense", index |-> e[k]]]
            \o [k \in 1..Len(i) |-> [family |-> "invoice", index |-> i[k]]]

\* upload_attachments_to_spiris(expenses, invoices), then main returns
UploadAttachments ==
    /\ pc = "upload"
    /\ \E event \in UploadEvents :
           LET result == upload_attachments_to_spiris(event)
           IN  /\ uploads' = uploads + 1
               /\ printed' = result.printed
               /\ attempts' = IF event = "complete"
                               THEN UploadCalls(expenses, invoices)
                               ELSE <<>>
               /\ IF result.raised
                  THEN pc' = "failed" /\ error' = event
                  ELSE pc' = "done" /\ UNCHANGED error
    /\ UNCHANGED <<env, expenses, invoices, config, clock, pos, output_lines,
                   number_of_rows, total_cost, encoded, ws_updates, files, call,
                   source, file_names, runs, marked, auth>>

Next ==
    \/ LoadConfig
    \/ LoadData
    \/ ProcessExpense
    \/ ExpensesDone
    \/ ProcessInvoice
    \/ InvoicesDone
    \/ NoPayments
    \/ AddHeaderAndTrailer
    \/ WritePo3File
    \/ UploadAttachments

Spec == Init /\ [][Next]_vars

(***************************************************************************)
(* Runs of main over one source, one after the other, while the date       *)
(* changes at midnight.  The tables are small: the rows are Scenario A and *)
(* Scenario B with a link to an attachment, a row that is paid and a row   *)
(* that is not approved.                                                   *)
(***************************************************************************)
MaxRuns == 2

ExpenseReceipt ==
    WithColumn(ExpenseA, EXPENSE_ATTACHMENT,
               StrCell("https://drive.google.com/file/d/1/view"))

ExpenseSettled == WithColumn(ExpensePaid, EXPENSE_ATTACHMENT, StrCell(""))

ExpenseWaiting == WithColumn(ExpenseNotApproved, EXPENSE_ATTACHMENT, StrCell(""))

InvoiceCopy ==
    WithColumn(InvoiceB, INVOICE_ATTACHMENT,
               StrCell("https://drive.google.com/file/d/2/view"))

SheetExpenseRows == {ExpenseReceipt, ExpenseSettled, ExpenseWaiting}

SheetInvoiceRows == {InvoiceCopy}

\* the sources of at most MaxRows rows
SheetSources ==
    UNION {{Holding(e, i) : i \in SeqsUpTo(SheetInvoiceRows, MaxRows - Len(e))} :
              e \in SeqsUpTo(SheetExpenseRows, MaxRows)}

\* the date of the day after
DaysIn(year, month) ==
    IF month = 2
    THEN (IF year % 4 = 0 /\ (year % 100 # 0 \/ year % 400 = 0) THEN 29 ELSE 28)
    ELSE IF month \in {4, 6, 9, 11} THEN 30 ELSE 31

Tomorrow(now) ==
    IF now.day < DaysIn(now.year, now.month)
    THEN [now EXCEPT !.day = @ + 1]
    ELSE IF now.month < 12
    THEN [now EXCEPT !.month = @ + 1, !.day = 1]
    ELSE [year |-> now.year + 1, month |-> 1, day |-> 1]

\* main is entered with a configured environment and a source that holds
\* its tables
InitSheet ==
    /\ env \in {e \in Envs : Config(e).ok}
    /\ expenses = <<>>
    /\ invoices = <<>>
    /\ config = None
    /\ clock \in Dates
    /\ pc = "config"
    /\ pos = 1
    /\ output_lines = <<>>
    /\ number_of_rows = 0
    /\ total_cost = Num(0)
    /\ encoded = <<>>
    /\ ws_updates = <<>>
    /\ files = <<>>
    /\ uploads = 0
    /\ printed = ""
    /\ error = ""
    /\ call = NoCall
    /\ source \in SheetSources
    /\ file_names = <<>>
    /\ attempts = <<>>
    /\ runs = 1
    /\ marked = {}
    /\ tokens = NoTokens
    /\ tokens_file = NoTokens
    /\ time = 0

\* the wall clock passes midnight, once
Midnight ==
    /\ clock \in Dates
    /\ clock' = Tomorrow(clock)
    /\ UNCHANGED <<env, expenses, invoices, config, pc, pos, output_lines,
                   number_of_rows, total_cost, encoded, ws_updates, files,
                   uploads, printed, error, call, source, file_names,
                   attempts, runs, marked, auth>>

\* main has ended, and is run again in the same environment: its locals
\* are new, the source is as the run before has left it
RunAgain ==
    /\ pc \in {"done", "returned", "failed"}
    /\ runs < MaxRuns
    /\ runs' = runs + 1
    /\ marked' = marked \cup {ws_updates[k] : k \in 1..Len(ws_updates)}
    /\ expenses' = <<>>
    /\ invoices' = <<>>
    /\ config' = None
    /\ pc' = "config"
    /\ pos' = 1
    /\ output_lines' = <<>>
    /\ number_of_rows' = 0
    /\ total_cost' = Num(0)
    /\ encoded' = <<>>
    /\ ws_updates' = <<>>
    /\ files' = <<>>
    /\ file_names' = <<>>
    /\ uploads' = 0
    /\ printed' = ""
    /\ error' = ""
    /\ attempts' = <<>>
    /\ UNCHANGED <<env, clock, call, source, auth>>

NextSheet ==
    \/ LoadConfig
    \/ LoadData
    \/ ProcessExpense
    \/ ExpensesDone
    \/ ProcessInvoice
    \/ InvoicesDone
    \/ NoPayments
    \/ AddHeaderAndTrailer
    \/ WritePo3File
    \/ UploadAttachments
    \/ Midnight
    \/ RunAgain

SpecSheet == InitSheet /\ [][NextSheet]_vars

(***************************************************************************)
(* Reading the state and the lines, for the properties below.              *)
(***************************************************************************)
RecordType(line) == SubSeq(line, 1, 4)

\* main has attached the header and the trailer
Framed ==
    \/ pc \in {"write_file", "upload", "done"}
    \/ pc = "failed" /\ error \in WriteOutcomes

\* process_payments has just returned
Assembled == pc = "check_payments"

\* the two tables have been loaded
DataLoaded == config # None /\ pc # "load_data"

\* the lines of the records: output_lines without header and trailer
RecordLines ==
    IF Framed THEN SubSeq(output_lines, 2, Len(output_lines) - 1)
    ELSE output_lines

CountType(lines, type) ==
    Cardinality({k \in 1..Len(lines) : RecordType(lines[k]) = type})

\* the amount field of a PI00 line (columns 33 to 45), in ore
LineOre(line) ==
    Signum(SubSeq(line, 33, 45)) * DigitsValue(Unsigned(SubSeq(line, 33, 45)))

\* the row count (columns 30 to 36) and the total (columns 37 to 51) of a
\* MT00 line
TrailerRows(line) == DigitsValue(SubSeq(line, 30, 36))
TrailerOre(line) ==
    Signum(SubSeq(line, 37, 51)) * DigitsValue(Unsigned(SubSeq(line, 37, 51)))

RECURSIVE SumLineOre(_)
SumLineOre(lines) ==
    IF Len(lines) = 0 THEN 0
    ELSE (IF RecordType(lines[1]) = RECORD_TYPE_PAYMENT
          THEN LineOre(lines[1]) ELSE 0)
         + SumLineOre(SubSeq(lines, 2, Len(lines)))

\* the loop is about to handle a row
InExpenseLoop == pc = "process_expenses" /\ pos <= Len(Unpaid(expenses))
InInvoiceLoop == pc = "process_invoices" /\ pos <= Len(Unpaid(invoices))
CurrentExpense == Normalized(expenses[Unpaid(expenses)[pos]])
CurrentInvoice == Normalized(invoices[Unpaid(invoices)[pos]])

\* the raw row a history entry stands for
RowOf(e) ==
    IF e.family = "expense" THEN expenses[e.index] ELSE invoices[e.index]

\* the unpaid rows of a table the validator accepts, in table order
AcceptedExpenses ==
    SelectSeq([j \in 1..Len(expenses) |-> j],
              LAMBDA j : /\ ~parse_bool_col(expenses[j].Utbetalt)
                         /\ validate_expense(Normalized(expenses[j])).valid)

AcceptedInvoices ==
    SelectSeq([j \in 1..Len(invoices) |-> j],
              LAMBDA j : /\ ~parse_bool_col(invoices[j].Utbetalt)
                         /\ validate_invoice(Normalized(invoices[j])).valid)

(***************************************************************************)
(* C1.  Every accepted record yields exactly 3 lines, each exactly 80      *)
(* characters long, whatever the width of its identifiers, texts and       *)
(* amount.  The code pads with ljust and zfill and never cuts an           *)
(* identifier: a clearing number of six digits gives a PI00 line of 81     *)
(* characters.                                                             *)
(***************************************************************************)
CexC1 ==
    /\ Len(RecordLines) = 3 * Len(encoded)
    /\ \A k \in 1..Len(RecordLines) : Len(RecordLines[k]) = LINE_LENGTH

(***************************************************************************)
(* C2.  Sum invariant: the total field of the MT00 trailer equals the sum  *)
(* of the amount fields of the PI00 lines of the batch.  Stated for the    *)
(* batches whose lines all have their 80 columns.  The code rounds the sum *)
(* of the amounts, not the amounts: 10.004 + 10.004 gives 1000 + 1000 in   *)
(* the lines and 2001 in the trailer.                                      *)
(***************************************************************************)
CexC2 ==
    (/\ Framed
     /\ \A k \in 1..Len(output_lines) : Len(output_lines[k]) = LINE_LENGTH)
    => TrailerOre(output_lines[Len(output_lines)]) = SumLineOre(RecordLines)

(***************************************************************************)
(* C3.  A written file holds exactly one MH00 line, its first, and exactly *)
(* one MT00 line, its last; header and trailer are attached only after     *)
(* both loops are over, and the framed sequence is handed to               *)
(* write_po3_file once.                                                    *)
(***************************************************************************)
WellFramed(lines) ==
    /\ Len(lines) >= 2
    /\ RecordType(lines[1]) = RECORD_TYPE_HEADER
    /\ RecordType(lines[Len(lines)]) = RECORD_TYPE_TRAILER
    /\ CountType(lines, RECORD_TYPE_HEADER) = 1
    /\ CountType(lines, RECORD_TYPE_TRAILER) = 1

ThmC3 ==
    /\ \A f \in 1..Len(files) : WellFramed(files[f])
    /\ Len(files) <= 1
    /\ pc \in {"upload", "done"} => files = <<output_lines>>
    /\ ~Framed =>
           /\ CountType(output_lines, RECORD_TYPE_HEADER) = 0
           /\ CountType(output_lines, RECORD_TYPE_TRAILER) = 0
    /\ Framed => WellFramed(output_lines)
    /\ pc = "write_file" =>
           Len(encoded) = Len(AcceptedExpenses) + Len(AcceptedInvoices)

WitC3 ==
    /\ pc = "done"
    /\ Len(files) = 1
    /\ Len(files[1]) = 2 + 3 * 2
    /\ \E a, b \in 1..Len(encoded) :
           encoded[a].family = "expense" /\ encoded[b].family = "invoice"

(***************************************************************************)
(* C4.  The lines of the records are a concatenation of triples PI00,      *)
(* BA00, BE01, one triple per accepted record, with nothing in between,    *)
(* during assembly and in the finished batch.                              *)
(***************************************************************************)
ThmC4 ==
    LET lines == RecordLines
    IN  /\ Len(lines) = 3 * Len(encoded)
        /\ \A k \in 1..Len(encoded) :
               /\ RecordType(lines[3 * k - 2]) = RECORD_TYPE_PAYMENT
               /\ RecordType(lines[3 * k - 1]) = RECORD_TYPE_NOTE
               /\ RecordType(lines[3 * k]) = RECORD_TYPE_BENEFICIARY

WitC4 ==
    /\ Framed
    /\ \E a, b \in 1..Len(encoded) :
           encoded[a].family = "expense" /\ encoded[b].family = "invoice"

(***************************************************************************)
(* C5.  The triples of the accepted expense rows come before those of the  *)
(* accepted invoice rows, and within each family in the row order of the   *)
(* table: the k-th triple is the one of the k-th accepted row.             *)
(***************************************************************************)
Before(a, b) ==
    \/ a.family = "expense" /\ b.family = "invoice"
    \/ a.family = b.family /\ a.index < b.index

\* the k-th triple carries the sub-code and the beneficiary of its row
TripleOf(k) ==
    LET e == encoded[k]
        lines == RecordLines
        pi00 == lines[3 * k - 2]
        be01 == lines[3 * k]
    IN  IF e.family = "expense"
        THEN /\ SubSeq(pi00, 5, 6) = EXPENSE_CODE
             /\ be01 = generate_be01(strip_strings(expenses[e.index].Ditt_namn))
        ELSE /\ SubSeq(pi00, 5, 6) \in {PLUSGIRO_CODE, BANKGIRO_CODE}
             /\ be01 = generate_be01(strip_strings(invoices[e.index].Mottagare_namn))

ThmC5 ==
    /\ \A a, b \in 1..Len(encoded) : a < b => Before(encoded[a], encoded[b])
    /\ Len(RecordLines) = 3 * Len(encoded)
    /\ \A k \in 1..Len(encoded) : TripleOf(k)
    /\ Assembled =>
           LET ae == AcceptedExpenses
               ai == AcceptedInvoices
           IN  /\ Len(encoded) = Len(ae) + Len(ai)
               /\ \A k \in 1..Len(ae) :
                      encoded[k] = [family |-> "expense", index |-> ae[k]]
               /\ \A k \in 1..Len(ai) :
                      encoded[Len(ae) + k] = [family |-> "invoice", index |-> ai[k]]

WitC5 ==
    /\ Assembled
    /\ \E a, b, c \in 1..Len(encoded) :
           /\ a < b /\ b < c
           /\ encoded[a].family = "expense"
           /\ encoded[b].family = "invoice"
           /\ encoded[c].family = "invoice"
           /\ RowOf(encoded[b]) # RowOf(encoded[c])

(***************************************************************************)
(* C6.  If no row of either table is accepted, main writes no file, starts *)
(* no attachment upload and returns without raising.                       *)
(***************************************************************************)
NoRowAccepted ==
    /\ \A j \in 1..Len(expenses) :
           \/ parse_bool_col(expenses[j].Utbetalt)
           \/ ~validate_expense(Normalized(expenses[j])).valid
    /\ \A j \in 1..Len(invoices) :
           \/ parse_bool_col(invoices[j].Utbetalt)
           \/ ~validate_invoice(Normalized(invoices[j])).valid

NothingWritten ==
    /\ files = <<>>
    /\ uploads = 0
    /\ error = ""
    /\ pc \in {"process_expenses", "process_invoices", "check_payments",
               "returned"}
    /\ CountType(output_lines, RECORD_TYPE_HEADER) = 0

ThmC6 == (DataLoaded /\ ~NothingWritten) => ~NoRowAccepted

WitC6 ==
    /\ NoRowAccepted
    /\ pc = "returned"
    /\ Len(Unpaid(expenses)) > 0
    /\ Len(Unpaid(invoices)) > 0

(***************************************************************************)
(* C7.  The row count of process_payments, which the MT00 trailer carries, *)
(* equals the number of PI00 lines of the batch and the number of accepted *)
(* records of both families.                                               *)
(***************************************************************************)
ThmC7 ==
    /\ number_of_rows = CountType(output_lines, RECORD_TYPE_PAYMENT)
    /\ number_of_rows = Len(encoded)
    /\ Assembled => number_of_rows = Len(AcceptedExpenses) + Len(AcceptedInvoices)
    /\ Framed =>
           TrailerRows(output_lines[Len(output_lines)])
               = CountType(output_lines, RECORD_TYPE_PAYMENT)

WitC7 ==
    /\ Framed
    /\ number_of_rows = 3
    /\ Len(output_lines) = 11

(***************************************************************************)
(* C8.  A row is accepted only if every text field its variant requires is *)
(* non-blank after trimming.  The code trims the texts and accepts the     *)
(* empty result: a row with an activity of blanks is encoded.              *)
(***************************************************************************)
NonBlank(cell) == Strip(StrOf(cell)) # ""

RequiredTexts(e) ==
    LET row == RowOf(e)
    IN  IF e.family = "expense"
        THEN {row.Verksamhet, row.Kort_beskrivning_av_kop, row.Ditt_namn}
        ELSE {row.Verksamhet, row.Kort_beskrivning_av_kop, row.Ditt_namn,
              row.OCR_meddelande, row.Mottagare_namn}

CexC8 ==
    \A k \in 1..Len(encoded) :
        /\ _parse_boolean(RowOf(encoded[k]).Godkant)
        /\ \A cell \in RequiredTexts(encoded[k]) : NonBlank(cell)

(***************************************************************************)
(* C9.  A row whose approval flag normalizes to false is excluded          *)
(* entirely: handling it adds no line, nothing to total_cost, nothing to   *)
(* the row count and makes no paid-flag write-back.                        *)
(***************************************************************************)
NotApproved(row) == ~_parse_boolean(row.Godkant)

ThmC9 ==
    [][(\/ InExpenseLoop /\ NotApproved(CurrentExpense)
        \/ InInvoiceLoop /\ NotApproved(CurrentInvoice))
       => /\ pos' = pos + 1
          /\ UNCHANGED <<output_lines, number_of_rows, total_cost, ws_updates,
                         encoded, pc>>]_vars

\* a row that only lacks the approval has been passed, in sheet mode, after
\* an approved row was encoded and written back
WitC9 ==
    /\ pc = "process_expenses"
    /\ pos = 3
    /\ config.use_gsheets
    /\ Len(ws_updates) = 1
    /\ NotApproved(expenses[Unpaid(expenses)[2]])
    /\ ExpenseRow(Normalized(expenses[Unpaid(expenses)[2]])).valid

(***************************************************************************)
(* C10.  A row validation failure (a missing field, a malformed number or  *)
(* integer, an unrecognized account type) never aborts the run: the row is *)
(* skipped, the lines, the row count and the total stay as they are, and   *)
(* the loop goes on.  The code takes the NaN of an empty amount cell for a *)
(* valid float; round() then raises inside process_payments and main ends  *)
(* with the exception.                                                     *)
(***************************************************************************)
Missing(cell) == cell.t = "nan"

ExpenseFailure(row) ==
    \/ \E cell \in {row.Belopp, row.Verksamhet, row.Clearingnummer,
                    row.Kontonummer, row.Ditt_namn,
                    row.Kort_beskrivning_av_kop} : Missing(cell)
    \/ ~parse_amount(row.Belopp).ok
    \/ ~parse_integers(row.Clearingnummer).ok
    \/ ~parse_integers(row.Kontonummer).ok

InvoiceFailure(row) ==
    \/ \E cell \in {row.Belopp, row.Verksamhet, row.Mottagarkontotyp,
                    row.Mottagarkontonummer, row.OCR_meddelande, row.Ditt_namn,
                    row.Kort_beskrivning_av_kop, row.Mottagare_namn} :
           Missing(cell)
    \/ ~parse_amount(row.Belopp).ok
    \/ ~parse_integers(row.Mottagarkontonummer).ok
    \/ strip_strings(row.Mottagarkontotyp) \notin AccountTypes

CexC10 ==
    [][(\/ InExpenseLoop /\ ExpenseFailure(CurrentExpense)
        \/ InInvoiceLoop /\ InvoiceFailure(CurrentInvoice))
       => /\ pos' = pos + 1
          /\ UNCHANGED <<output_lines, number_of_rows, total_cost, pc>>]_vars

(***************************************************************************)
(* C11.  A paid-flag write-back that raises for an accepted record does    *)
(* not abort the assembly: the loop goes on to the next row.  The code     *)
(* calls update_cell with no handler around it: the exception leaves       *)
(* process_payments, main prints it and raises it again, and no file is    *)
(* written.                                                                *)
(***************************************************************************)
\* the loop is about to encode a row, in sheet mode
EncodesWithWriteBack ==
    /\ \/ /\ InExpenseLoop
          /\ validate_expense(CurrentExpense).valid
          /\ ~RoundRaises(validate_expense(CurrentExpense).Belopp)
       \/ /\ InInvoiceLoop
          /\ validate_invoice(CurrentInvoice).valid
          /\ ~RoundRaises(validate_invoice(CurrentInvoice).Belopp)
    /\ config.use_gsheets

CexC11 ==
    [][(EncodesWithWriteBack /\ ws_updates' = ws_updates)
       => /\ pc' = pc
          /\ pos' = pos + 1
          /\ error' = ""]_vars

(***************************************************************************)
(* C12.  When ORG_NUMBER or ACCOUNT_NUMBER is not set or is empty, the run *)
(* fails in Config() with a ValueError: no table is loaded, no row is      *)
(* validated or encoded, no write-back is made and no file is written.     *)
(***************************************************************************)
MissingValue(value) == ~value.set \/ value.v = ""

ConfigMissing ==
    MissingValue(env.ORG_NUMBER) \/ MissingValue(env.ACCOUNT_NUMBER)

ThmC12 ==
    ConfigMissing =>
        /\ pc \in {"config", "failed"}
        /\ pc = "failed" => error = "ValueError"
        /\ config = None
        /\ expenses = <<>> /\ invoices = <<>>
        /\ pos = 1
        /\ output_lines = <<>> /\ encoded = <<>> /\ number_of_rows = 0
        /\ ws_updates = <<>>
        /\ files = <<>>
        /\ uploads = 0

\* the run has failed on an account number that is set, but empty
WitC12 ==
    /\ pc = "failed"
    /\ error = "ValueError"
    /\ ~MissingValue(env.ORG_NUMBER)
    /\ env.ACCOUNT_NUMBER = Set("")

(***************************************************************************)
(* C13.  An invoice is encoded only if its recipient account type,         *)
(* trimmed, is Plusgiro or Bankgiro; columns 5-6 of its PI00 line are "00" *)
(* for Plusgiro and "05" for Bankgiro.                                     *)
(***************************************************************************)
AccountTypeOf(e) == Strip(StrOf(RowOf(e).Mottagarkontotyp))

Digits(cell) == Len(Strip(Replace(StrOf(cell), ",", "")))

IdentifiersFit(e) ==
    LET row == RowOf(e)
    IN  IF e.family = "expense"
        THEN Digits(row.Clearingnummer) <= 5 /\ Digits(row.Kontonummer) <= 11
        ELSE Digits(row.Mottagarkontonummer) <= 11

CexC14 ==
    LET lines == RecordLines
    IN  \A k \in 1..Len(encoded) :
            /\ IdentifiersFit(encoded[k])
            /\ SubSeq(lines[3 * k - 2], 25, 32) = Strftime(clock)

(***************************************************************************)
(* The functions on their own: one call of a parser or of an encoder, on   *)
(* an input of its domain.                                                 *)
(***************************************************************************)
\* the cells an approval or a paid column can hold
FlagCells ==
    {BoolCell(TRUE), BoolCell(FALSE), NaNCell,
     IntCell(0), IntCell(1), IntCell(2),
     FloatCell(0), FloatCell(1000), FloatCell(2500)}
    \cup {StrCell(s) : s \in {"true", "TRUE", " True ", "tRuE", "\ttrue",
                              "false", "FALSE", "", "  ", "1", "0", "yes",
                              "ja", "t", "truee", "True"}}

\* the texts an amount column can hold
AmountTexts ==
    {"1,234.50", "1,234", "150", "150.00", "10.004", "2,500.5", "12,5",
     "2500.50", " 99 ", "-150", "", "abc", "1.234.50", "1_000", ",5"}

\* the dates datetime.now() can return
Clocks ==
    Dates \cup {[year |-> 2027, month |-> 1, day |-> 1],
                [year |-> 2026, month |-> 2, day |-> 3]}

InitCalls ==
    /\ env = [ORG_NUMBER |-> Unset, ACCOUNT_NUMBER |-> Unset, USE_GSHEETS |-> Unset]
    /\ expenses = <<>>
    /\ invoices = <<>>
    /\ config = None
    /\ clock \in Dates
    /\ pc = "calls"
    /\ pos = 1
    /\ output_lines = <<>>
    /\ number_of_rows = 0
    /\ total_cost = Num(0)
    /\ encoded = <<>>
    /\ ws_updates = <<>>
    /\ files = <<>>
    /\ uploads = 0
    /\ printed = ""
    /\ error = ""
    /\ call = NoCall
    /\ source = Unread
    /\ file_names = <<>>
    /\ attempts = <<>>
    /\ runs = 1
    /\ marked = {}
    /\ tokens = NoTokens
    /\ tokens_file = NoTokens
    /\ time = 0

\* the variables of a run of main
run ==
    <<env, expenses, invoices, config, clock, pc, pos, output_lines,
      number_of_rows, total_cost, encoded, ws_updates, files, uploads,
      printed, error, source, file_names, attempts, runs, marked>>

\* _parse_boolean(value)
CallParseBoolean ==
    /\ \E value \in FlagCells :
           call' = [f |-> "_parse_boolean", arg |-> value,
                    out |-> _parse_boolean(value)]
    /\ UNCHANGED <<run, auth>>

\* parse_bool_col on one cell of the paid column
CallParseBoolCol ==
    /\ \E x \in FlagCells :
           call' = [f |-> "parse_bool_col", arg |-> x, out |-> parse_bool_col(x)]
    /\ UNCHANGED <<run, auth>>

\* parse_amount(v) for a text v
CallParseAmount ==
    /\ \E s \in AmountTexts :
           call' = [f |-> "parse_amount", arg |-> StrCell(s),
                    out |-> parse_amount(StrCell(s))]
    /\ UNCHANGED <<run, auth>>

\* generate_lines_for_expense(expense), twice, on an accepted expense
CallGenerateLinesForExpense ==
    /\ \E row \in ExpenseRows, first \in Clocks, second \in Clocks :
           LET expense == validate_expense(Normalized(row))
           IN  /\ expense.valid
               /\ ~RoundRaises(expense.Belopp)
               /\ call' = [f |-> "generate_lines_for_expense", arg |-> row,
                           now |-> <<first, second>>,
                           out |-> <<generate_lines_for_expense(expense, first),
                                     generate_lines_for_expense(expense, second)>>]
    /\ UNCHANGED <<run, auth>>

\* generate_lines_for_invoice(invoice), twice, on an accepted invoice
CallGenerateLinesForInvoice ==
    /\ \E row \in InvoiceRows, first \in Clocks, second \in Clocks :
           LET invoice == validate_invoice(Normalized(row))
           IN  /\ invoice.valid
               /\ ~RoundRaises(invoice.Belopp)
               /\ call' = [f |-> "generate_lines_for_invoice", arg |-> row,
                           now |-> <<first, second>>,
                           out |-> <<generate_lines_for_invoice(invoice, first),
                                     generate_lines_for_invoice(invoice, second)>>]
    /\ UNCHANGED <<run, auth>>

\* the values ORG_NUMBER and ACCOUNT_NUMBER can be set to
OrgNumbers == {"", "5560001234", "556000-1234", "802400"}
AccountNumbers == {"", "1234567", "1234567890", "12345678901"}

\* generate_start_line(config.org_number, config.account_number) for a
\* configuration Config() accepts
CallGenerateStartLine ==
    /\ \E org \in OrgNumbers, account \in AccountNumbers :
           LET c == Config([ORG_NUMBER |-> Set(org),
                            ACCOUNT_NUMBER |-> Set(account),
                            USE_GSHEETS |-> Unset])
           IN  /\ c.ok
               /\ call' = [f |-> "generate_start_line",
                           arg |-> <<c.v.org_number, c.v.account_number>>,
                           out |-> generate_start_line(c.v.org_number,
                                                       c.v.account_number)]
    /\ UNCHANGED <<run, auth>>

(***************************************************************************)
(* The legacy generator (src/create_po3.py).  It works on the cells of the *)
(* row as they were loaded, with the approval column normalized; its       *)
(* generate_ba00 and generate_be01 are those of src/formatters.py.         *)
(***************************************************************************)
\* what the handling of one row comes to: the row is passed, an exception
\* is raised, or the lines and the amount are added
Passed == [accepted |-> FALSE, raised |-> "", lines |-> <<>>, amount |-> Num(0)]
Raising(exception) ==
    [accepted |-> TRUE, raised |-> exception, lines |-> <<>>, amount |-> Num(0)]
Added(lines, amount) ==
    [accepted |-> TRUE, raised |-> "", lines |-> lines, amount |-> amount]

\* pd.isna(row.get(field)) or str(row.get(field)).strip() == ""
legacy_missing(cell) == cell.t = "nan" \/ Strip(StrOf(cell)) = ""

\* validate_row(row), after normalize_dataframes
legacy_validate_row(row) ==
    /\ parse_bool_col(row.Godkant)
    /\ \A cell \in {row.Belopp, row.Ditt_namn, row.Verksamhet,
                     row.Kort_beskrivning_av_kop} : ~legacy_missing(cell)

\* round(amount * 100) of a cell: a text times 100 is a text, and round
\* raises TypeError
legacy_amount(cell) ==
    CASE cell.t = "float" -> Returned(Num(cell.n))
      [] cell.t = "int" -> Returned(Num(cell.n * 1000))
      [] cell.t = "bool" -> Returned(Num(IF cell.b THEN 1000 ELSE 0))
      [] OTHER -> Raised

legacy_generate_pi00_expense(clearing_number, account_number, amount, message, now) ==
    RECORD_TYPE_PAYMENT
        \o EXPENSE_CODE
        \o Ljust(StrOf(clearing_number), 5)
        \o Ljust(StrOf(account_number), 11)
        \o "  "
        \o Strftime(now)
        \o format_amount(amount, 13)
        \o Slice(Ljust(message, 12), 12)
        \o Repeat(" ", 23)

legacy_generate_pi00_giro(account_number, amount, ocr, code, now) ==
    RECORD_TYPE_PAYMENT
        \o code
        \o Repeat(" ", 5)
        \o Ljust(StrOf(account_number), 11)
        \o "  "
        \o Strftime(now)
        \o format_amount(amount, 13)
        \o Ljust(StrOf(ocr), 25)
        \o Repeat(" ", 10)

\* generate_lines_for_expense(row) of create_po3.py, and what
\* process_payments does with it
legacy_generate_lines_for_expense(row, now) ==
    LET amount == legacy_amount(row.Belopp)
        message == create_message(StrOf(row.Verksamhet),
                                  StrOf(row.Kort_beskrivning_av_kop))
        note == create_note(StrOf(row.Verksamhet),
                            StrOf(row.Kort_beskrivning_av_kop),
                            StrOf(row.Ditt_namn))
    IN  IF ~legacy_validate_row(row) THEN Passed
        ELSE IF ~amount.ok THEN Raising("TypeError")
        ELSE IF row.Ditt_namn.t # "str" THEN Raising("AttributeError")
        ELSE Added(<<legacy_generate_pi00_expense(row.Clearingnummer,
                                                  row.Kontonummer, amount.v,
                                                  message, now),
                     generate_ba00(note),
                     generate_be01(row.Ditt_namn.s)>>,
                   amount.v)

\* generate_lines_for_invoice(row) of create_po3.py
legacy_generate_lines_for_invoice(row, now) ==
    LET amount == legacy_amount(row.Belopp)
        code == IF row.Mottagarkontotyp = StrCell("Plusgiro")
                THEN PLUSGIRO_CODE ELSE BANKGIRO_CODE
        note == create_note(StrOf(row.Verksamhet),
                            StrOf(row.Kort_beskrivning_av_kop),
                            StrOf(row.Ditt_namn))
    IN  IF ~legacy_validate_row(row) THEN Passed
        ELSE IF ~amount.ok THEN Raising("TypeError")
        ELSE IF row.Mottagare_namn.t # "str" THEN Raising("AttributeError")
        ELSE Added(<<legacy_generate_pi00_giro(row.Mottagarkontonummer,
                                               amount.v, row.OCR_meddelande,
                                               code, now),
                     generate_ba00(note),
                     generate_be01(row.Mottagare_namn.s)>>,
                   amount.v)

\* one turn of the expense loop of src/main.py: validate_expense, then
\* generate_lines_for_expense
modular_expense(row, now) ==
    LET expense == validate_expense(Normalized(row))
    IN  IF ~expense.valid THEN Passed
        ELSE IF RoundRaises(expense.Belopp) THEN Raising("ValueError")
        ELSE Added(generate_lines_for_expense(expense, now), expense.Belopp)

\* one turn of the invoice loop of src/main.py
modular_invoice(row, now) ==
    LET invoice == validate_invoice(Normalized(row))
    IN  IF ~invoice.valid THEN Passed
        ELSE IF RoundRaises(invoice.Belopp) THEN Raising("ValueError")
        ELSE Added(generate_lines_for_invoice(invoice, now), invoice.Belopp)

\* an unpaid expense row handled by the two generators, at one date
CallBothForExpense ==
    /\ \E row \in ExpenseRows, now \in Clocks :
           /\ ~parse_bool_col(row.Utbetalt)
           /\ call' = [f |-> "expense, by both generators", arg |-> row,
                       now |-> now,
                       legacy |-> legacy_generate_lines_for_expense(row, now),
                       modular |-> modular_expense(row, now)]
    /\ UNCHANGED <<run, auth>>

\* an unpaid invoice row handled by the two generators, at one date
CallBothForInvoice ==
    /\ \E row \in InvoiceRows, now \in Clocks :
           /\ ~parse_bool_col(row.Utbetalt)
           /\ call' = [f |-> "invoice, by both generators", arg |-> row,
                       now |-> now,
                       legacy |-> legacy_generate_lines_for_invoice(row, now),
                       modular |-> modular_invoice(row, now)]
    /\ UNCHANGED <<run, auth>>

NextCalls ==
    \/ CallBothForExpense
    \/ CallBothForInvoice
    \/ CallGenerateStartLine
    \/ CallParseBoolean
    \/ CallParseBoolCol
    \/ CallParseAmount
    \/ CallGenerateLinesForExpense
    \/ CallGenerateLinesForInvoice

SpecCalls == InitCalls /\ [][NextCalls]_vars

(***************************************************************************)
(* SpirisAuth (src/src/integrations/spiris/auth.py): the cached tokens,    *)
(* and get_access_token.  A dict is a function of its keys; the time is    *)
(* counted in hours, so that the default expires_in of 3600 seconds is 1.  *)
(***************************************************************************)
MaxTime == 3

\* the empty dict that _load_tokens returns when there is no file
NoDict == <<>>

\* an access token, named by the grant that gave it and by its time
Token(grant, at) == [grant |-> grant, at |-> at]

\* the lifetimes a token response can carry (expires_in, 3600 by default)
ExpiresIn == {1, 2}

\* requests.post(...) followed by raise_for_status() and json(): an
\* exception, or the tokens of the response
Failure == [ok |-> FALSE]

Responses(grant, now) ==
    {Failure} \cup
    {[ok |-> TRUE,
      access_token |-> Token(grant, now),
      refresh_token |-> Token("refresh of " \o grant, now),
      expires_in |-> n] : n \in ExpiresIn}

\* _store_tokens: the dict that becomes self.tokens
StoredTokens(response, now) ==
    [access_token |-> response.access_token,
     refresh_token |-> response.refresh_token,
     expires_at |-> now + response.expires_in]

\* a comparison that takes the moment of expiry for unexpired
NotAfter(now, expires_at) == now <= expires_at

\* "datetime.now() < expires_at"
Unexpired(now, expires_at) == now < expires_at

\* "if not auth_code": None and the empty text, both written ""
NoAuthCode(auth_code) == auth_code = ""

AuthCodes == {"", "364BE20665"}

\* get_access_token(auth_code) at the time now, for self.tokens = tok: the
\* requests it posts, what it returns or raises, and self.tokens after it;
\* refresh and exchange are what the two token requests would answer
get_access_token(tok, now, auth_code, refresh, exchange) ==
    LET cached == "refresh_token" \in DOMAIN tok /\ "expires_at" \in DOMAIN tok
        fresh == cached /\ Unexpired(now, tok.expires_at)
        refreshed == cached /\ ~fresh /\ refresh.ok
        posted == IF cached /\ ~fresh THEN <<"refresh_token">> ELSE <<>>
    IN  IF fresh
        THEN [requests |-> <<>>, raised |-> "", token |-> tok.access_token,
              tokens |-> tok, stored |-> FALSE]
        ELSE IF refreshed
        THEN [requests |-> posted, raised |-> "",
              token |-> StoredTokens(refresh, now).access_token,
              tokens |-> StoredTokens(refresh, now), stored |-> TRUE]
        ELSE IF NoAuthCode(auth_code)
        THEN [requests |-> posted, raised |-> "ValueError", token |-> NoDict,
              tokens |-> tok, stored |-> FALSE]
        ELSE IF exchange.ok
        THEN [requests |-> Append(posted, "authorization_code"), raised |-> "",
              token |-> exchange.access_token,
              tokens |-> StoredTokens(exchange, now), stored |-> TRUE]
        ELSE [requests |-> Append(posted, "authorization_code"),
              raised |-> "HTTPError", token |-> NoDict,
              tokens |-> tok, stored |-> FALSE]

\* what .spiris_tokens.json can hold when a SpirisAuth is made: nothing,
\* the tokens of an earlier _store_tokens, or a refresh token alone
TokenFiles ==
    {NoDict, [refresh_token |-> Token("refresh of authorization_code", 0)]}
    \cup {[access_token |-> Token("authorization_code", 0),
           refresh_token |-> Token("refresh of authorization_code", 0),
           expires_at |-> e] : e \in ExpiresIn}

\* a SpirisAuth has been made: self.tokens = self._load_tokens()
InitAuth ==
    /\ env = [ORG_NUMBER |-> Unset, ACCOUNT_NUMBER |-> Unset, USE_GSHEETS |-> Unset]
    /\ expenses = <<>>
    /\ invoices = <<>>
    /\ config = None
    /\ clock \in Dates
    /\ pc = "calls"
    /\ pos = 1
    /\ output_lines = <<>>
    /\ number_of_rows = 0
    /\ total_cost = Num(0)
    /\ encoded = <<>>
    /\ ws_updates = <<>>
    /\ files = <<>>
    /\ uploads = 0
    /\ printed = ""
    /\ error = ""
    /\ call = NoCall
    /\ source = Unread
    /\ file_names = <<>>
    /\ attempts = <<>>
    /\ runs = 1
    /\ marked = {}
    /\ tokens_file \in TokenFiles
    /\ tokens = tokens_file
    /\ time = 0

\* an hour passes
Tick ==
    /\ time < MaxTime
    /\ time' = time + 1
    /\ UNCHANGED <<run, call, tokens, tokens_file>>

\* SpirisAuth(): another process makes its SpirisAuth from the file
LoadTokens ==
    /\ tokens' = tokens_file
    /\ UNCHANGED <<run, call, tokens_file, time>>

\* get_access_token(auth_code); _save_tokens writes the file, or prints a
\* warning and leaves it
GetAccessToken ==
    /\ \E auth_code \in AuthCodes,
          refresh \in Responses("refresh_token", time),
          exchange \in Responses("authorization_code", time),
          saved \in BOOLEAN :
           LET result == get_access_token(tokens, time, auth_code, refresh, exchange)
           IN  /\ tokens' = result.tokens
               /\ tokens_file' = IF result.stored /\ saved
                                 THEN result.tokens ELSE tokens_file
               /\ call' = [f |-> "get_access_token", arg |-> auth_code,
                           now |-> time, before |-> tokens,
                           file |-> tokens_file, refresh |-> refresh,
                           out |-> result, file_after |-> tokens_file']
    /\ UNCHANGED <<run, time>>

NextAuth ==
    \/ Tick
    \/ LoadTokens
    \/ GetAccessToken

SpecAuth == InitAuth /\ [][NextAuth]_vars

(***************************************************************************)
(* C15.  The normalization of an approval or paid flag gives true exactly  *)
(* for the boolean true and for a text that, trimmed and in lower case, is *)
(* "true"; every other value gives false.  The code ends with bool(value): *)
(* the number 1, any number but 0 and the NaN of a blank CSV cell give     *)
(* true.                                                                   *)
(***************************************************************************)
TrueFlag(value) ==
    \/ value = BoolCell(TRUE)
    \/ value.t = "str" /\ Lower(Strip(value.s)) = "true"

CexC15 ==
    call.f \in {"_parse_boolean", "parse_bool_col"}
        => (call.out <=> TrueFlag(call.arg))

(***************************************************************************)
(* C16.  In an amount given as text the commas are thousands separators:   *)
(* they are removed before the text is parsed, "1,234.50" is 1234.50 and   *)
(* "1,234" is 1234.  The code replaces each comma by a decimal point:      *)
(* "1,234" is 1.234 and "1,234.50" is refused.                             *)
(***************************************************************************)
WithoutCommas(s) == PyFloat(Replace(s, ",", ""))

CexC16 ==
    call.f = "parse_amount" => call.out = WithoutCommas(call.arg.s)

(***************************************************************************)
(* C17.  No row with a negative amount is encoded: the amount field of     *)
(* every PI00 line and the total field of the MT00 line are decimal digits *)
(* only, and total_cost never decreases.  The code has no check of the     *)
(* sign: a row of -150.00 is encoded with the amount -000000015000.        *)
(***************************************************************************)
AllDigits(s) == \A j \in 1..Len(s) : IsDigit(Char(s, j))

CexC17 ==
    /\ total_cost.m >= 0
    /\ \A k \in 1..Len(output_lines) :
           LET line == output_lines[k]
           IN  Len(line) = LINE_LENGTH =>
                   /\ RecordType(line) = RECORD_TYPE_PAYMENT
                          => AllDigits(SubSeq(line, 33, 45))
                   /\ RecordType(line) = RECORD_TYPE_TRAILER
                          => AllDigits(SubSeq(line, 37, 51))

(***************************************************************************)
(* C18.  A record whose note (activity, description, payer name, joined by *)
(* spaces) is longer than 35 characters is encoded; its BA00 line has 80   *)
(* characters, columns 5-22 hold the note cut or padded to 18 characters,  *)
(* columns 32-66 the same note cut or padded to 35, so the first field is  *)
(* the start of the second.                                                *)
(***************************************************************************)
NoteOf(e) ==
    LET row == RowOf(e)
    IN  Strip(StrOf(row.Verksamhet)) \o " "
            \o Strip(StrOf(row.Kort_beskrivning_av_kop)) \o " "
            \o Strip(StrOf(row.Ditt_namn))

\* s cut, or padded with spaces, to w characters
Fit(s, w) ==
    IF Len(s) >= w THEN SubSeq(s, 1, w) ELSE s \o Repeat(" ", w - Len(s))

ThmC18 ==
    LET lines == RecordLines
    IN  \A k \in 1..Len(encoded) :
            LET ba00 == lines[3 * k - 1]
                note == NoteOf(encoded[k])
            IN  /\ Len(ba00) = LINE_LENGTH
                /\ RecordType(ba00) = RECORD_TYPE_NOTE
                /\ SubSeq(ba00, 5, 22) = Fit(note, 18)
                /\ SubSeq(ba00, 32, 66) = Fit(note, 35)
                /\ SubSeq(ba00, 5, 22) = SubSeq(ba00, 32, 49)

\* a written batch with a note of more than 35 characters and one of less
\* than 35
WitC18 ==
    /\ pc = "upload"
    /\ \E a, b \in 1..Len(encoded) :
           Len(NoteOf(encoded[a])) > 35 /\ Len(NoteOf(encoded[b])) < 35

(***************************************************************************)
(* C19.  upload_attachments_to_spiris is called only after write_po3_file  *)
(* has written the file; whatever happens inside it, main ends without an  *)
(* exception and the written file stays as it is.  A write that fails ends *)
(* main before any upload.                                                 *)
(***************************************************************************)
UploadAfterWrite ==
    /\ (pc = "upload" \/ uploads > 0) =>
           /\ files = <<output_lines>>
           /\ error = ""
    /\ uploads > 0 => pc = "done"
    /\ files = <<>> => uploads = 0 /\ printed = ""

ThmC19 ==
    /\ []UploadAfterWrite
    /\ [][pc = "upload" =>
              /\ pc' = "done"
              /\ uploads' = 1
              /\ files' = files
              /\ error' = ""]_vars

\* main has returned after an upload that ended with a warning
WitC19 ==
    /\ pc = "done"
    /\ uploads = 1
    /\ printed = "Warning"
    /\ Len(files) = 1

(***************************************************************************)
(* C20.  Encoding is deterministic, and the clock only shows in the date   *)
(* of the PI00 line: two encodings of one accepted record with the same    *)
(* date are equal, and with two dates they have the same BA00 and BE01     *)
(* lines and PI00 lines that differ in the eight characters of the date    *)
(* only.                                                                   *)
(***************************************************************************)
\* lines a and b are equal but for the date d in a where b has e
SameButDate(a, b, d, e) ==
    /\ Len(a) = Len(b)
    /\ \E p \in 1..(Len(a) - 7) :
           /\ SubSeq(a, p, p + 7) = d
           /\ SubSeq(b, p, p + 7) = e
           /\ SubSeq(a, 1, p - 1) = SubSeq(b, 1, p - 1)
           /\ SubSeq(a, p + 8, Len(a)) = SubSeq(b, p + 8, Len(b))

ScenarioA == expenses = <<ExpenseA>> /\ invoices = <<>>

CexC22 ==
    call.f = "generate_start_line" =>
        LET org == call.arg[1]
            account == call.arg[2]
            line == call.out
            field == 13 + Len(org) + 12
        IN  /\ Len(line) = LINE_LENGTH
            /\ SubSeq(line, 1, 4) = "MH00"
            /\ SubSeq(line, 13, 12 + Len(org)) = org
            /\ Strip(SubSeq(line, field, field + 9)) = account

(***************************************************************************)
(* C23.  The paid-flag write-back is made only for accepted records and    *)
(* only in sheet mode, once for each accepted record and in the order of   *)
(* the records; it targets the paid column of sheet row i + 2, i being the *)
(* position (from 0) of the record's row in the unfiltered table, and sets *)
(* it to true.  Rejected rows, rows already paid and runs in CSV mode make *)
(* no write-back.  The write-backs counted are those that returned: the    *)
(* one that raises is the last call of the run.                            *)
(***************************************************************************)
\* the worksheet of a family of records
WorksheetOf(family) == IF family = "expense" THEN "expenses" ELSE "invoices"

\* the rows (from 1) of the worksheet ws that the validator accepts
AcceptedRows(ws) ==
    IF ws = "expenses"
    THEN {AcceptedExpenses[k] : k \in 1..Len(AcceptedExpenses)}
    ELSE {AcceptedInvoices[k] : k \in 1..Len(AcceptedInvoices)}

SheetMode == config # None /\ config.use_gsheets

ThmC23 ==
    /\ ~SheetMode => ws_updates = <<>>
    /\ Len(ws_updates) <= Len(encoded)
    /\ \A k \in 1..Len(ws_updates) :
           /\ ws_updates[k] = [ws |-> WorksheetOf(encoded[k].family),
                               row |-> (encoded[k].index - 1) + 2,
                               col |-> "Utbetalt",
                               value |-> TRUE]
           /\ ws_updates[k].row - 1 \in AcceptedRows(ws_updates[k].ws)
    /\ \A a, b \in 1..Len(ws_updates) : a # b => ws_updates[a] # ws_updates[b]
    /\ SheetMode =>
           Len(ws_updates) =
               IF pc = "failed" /\ error = "APIError"
               THEN Len(encoded) - 1 ELSE Len(encoded)

\* in sheet mode, behind a row that is paid or rejected, an expense and an
\* invoice have been written back
WitC23 ==
    /\ SheetMode
    /\ Assembled
    /\ Len(ws_updates) = 2
    /\ ws_updates[1].ws = "expenses" /\ ws_updates[1].row = 3
    /\ ws_updates[2].ws = "invoices"

(***************************************************************************)
(* C24.  No row is marked paid unless a file that holds its payment lines  *)
(* is written in the same run, also when the run ends with an exception of *)
(* a later row, of a later write-back or of write_po3_file: when main has  *)
(* ended, the rows marked paid are among the rows whose PI00 lines are in  *)
(* the written file.  The code marks a row inside the loop, before the     *)
(* file is framed and written: a run that fails later leaves rows marked   *)
(* paid and no file.                                                       *)
(***************************************************************************)
\* main has ended, by a return or by an exception
Ended == pc \in {"done", "returned", "failed"}

\* the PI00 line of the k-th encoded record
PaymentLine(k) ==
    LET e == encoded[k]
    IN  IF e.family = "expense"
        THEN generate_lines_for_expense(
                 validate_expense(Normalized(expenses[e.index])), clock)[1]
        ELSE generate_lines_for_invoice(
                 validate_invoice(Normalized(invoices[e.index])), clock)[1]

CexC24 ==
    Ended =>
        \A k \in 1..Len(ws_updates) :
            /\ Len(files) = 1
            /\ \E n \in 1..Len(files[1]) : files[1][n] = PaymentLine(k)

(***************************************************************************)
(* C25.  All the PI00 lines of a written file carry the same date, and it  *)
(* is the YYYYMMDD of the file name, also when the clock passes midnight   *)
(* between the encoding of the first payment line and the computing of the *)
(* file name.  The code reads the clock anew for every payment line and    *)
(* once more for the file name: after a midnight the later lines, and the  *)
(* name, carry the next day.                                               *)
(***************************************************************************)
\* the date of a PI00 line of 80 columns, and the date of a file name
DateOfLine(line) == SubSeq(line, 25, 32)
DateOfName(name) == SubSeq(name, Len("utlagg_") + 1, Len("utlagg_") + 8)

CexC25 ==
    \A f \in 1..Len(files) :
        \A n \in 1..Len(files[f]) :
            RecordType(files[f][n]) = RECORD_TYPE_PAYMENT =>
                DateOfLine(files[f][n]) = DateOfName(file_names[f])

(***************************************************************************)
(* C26.  No payment is made twice across runs.  A row whose paid flag is   *)
(* true gives no line, no amount and no write-back; in sheet mode a run    *)
(* encodes none of the rows an earlier run has marked paid, and after a    *)
(* run that ended well the sheet holds no unpaid row the validator         *)
(* accepts, so that a run over the sheet as it then is encodes nothing and *)
(* writes no file.                                                         *)
(***************************************************************************)
\* the source holds no unpaid row that the validator accepts
NoneLeft(src) ==
    /\ \A j \in 1..Len(src.expenses) :
           \/ parse_bool_col(src.expenses[j].Utbetalt)
           \/ ~validate_expense(Normalized(src.expenses[j])).valid
    /\ \A j \in 1..Len(src.invoices) :
           \/ parse_bool_col(src.invoices[j].Utbetalt)
           \/ ~validate_invoice(Normalized(src.invoices[j])).valid

\* the paid cell of the row of an encoded record
PaidCellOf(e) ==
    [ws |-> WorksheetOf(e.family), row |-> e.index + 1, col |-> COL_PAID,
     value |-> TRUE]

ThmC26 ==
    /\ \A k \in 1..Len(encoded) : ~parse_bool_col(RowOf(encoded[k]).Utbetalt)
    /\ \A k \in 1..Len(ws_updates) :
           LET u == ws_updates[k]
           IN  ~parse_bool_col((IF u.ws = "expenses" THEN expenses ELSE invoices)
                                   [u.row - 1].Utbetalt)
    /\ SheetMode => \A k \in 1..Len(encoded) : PaidCellOf(encoded[k]) \notin marked
    /\ (SheetMode /\ pc \in {"done", "returned"}) => NoneLeft(source)
    /\ (source.read /\ NoneLeft(source) /\ ws_updates = <<>>) =>
           /\ encoded = <<>>
           /\ output_lines = <<>>
           /\ total_cost = Num(0)
           /\ files = <<>>
           /\ pc \notin {"write_file", "upload", "done"}

\* in sheet mode a second run has returned with an empty batch, over a
\* sheet in which an earlier run has marked an expense and an invoice
WitC26 ==
    /\ SheetMode
    /\ runs = 2
    /\ pc = "returned"
    /\ encoded = <<>>
    /\ \E a, b \in marked : a.ws = "expenses" /\ b.ws = "invoices"
    /\ \E j \in 1..Len(expenses) : expenses[j].Utbetalt = Checked

(***************************************************************************)
(* C27.  During process_payments, after every row, output_lines has 3      *)
(* lines for each counted record: Len(output_lines) = 3 * number_of_rows.  *)
(* Handling a row changes output_lines, number_of_rows and total_cost      *)
(* together (3 more lines, 1 more record, the amount added) or leaves all  *)
(* three as they are.  A written file has 3 * number_of_rows + 2 lines.    *)
(***************************************************************************)
InLoops == pc \in {"process_expenses", "process_invoices"}

\* the amount of the record the loop is about to handle
CurrentAmount ==
    IF pc = "process_expenses"
    THEN validate_expense(CurrentExpense).Belopp
    ELSE validate_invoice(CurrentInvoice).Belopp

ThreeLinesEach ==
    /\ ~Framed => Len(output_lines) = 3 * number_of_rows
    /\ Framed => Len(output_lines) = 3 * number_of_rows + 2
    /\ \A f \in 1..Len(files) :
           /\ Len(files[f]) = 3 * number_of_rows + 2
           /\ Len(files[f]) = 3 * TrailerRows(files[f][Len(files[f])]) + 2

ThmC27 ==
    /\ []ThreeLinesEach
    /\ [][InLoops =>
              \/ UNCHANGED <<output_lines, number_of_rows, total_cost>>
              \/ /\ Len(output_lines') = Len(output_lines) + 3
                 /\ SubSeq(output_lines', 1, Len(output_lines)) = output_lines
                 /\ number_of_rows' = number_of_rows + 1
                 /\ total_cost' = AddFloat(total_cost, CurrentAmount)
                 /\ total_cost' # total_cost]_vars

\* the invoice loop has counted an expense and an invoice, after the
\* expense loop has passed a row it rejected
WitC27 ==
    /\ pc = "process_invoices"
    /\ pos = 2
    /\ number_of_rows = 2
    /\ Len(output_lines) = 6
    /\ Len(Unpaid(expenses)) = 2

(***************************************************************************)
(* C28.  The upload pass attempts an upload for exactly the records whose  *)
(* payment lines are in the written file, expenses first, then invoices,   *)
(* and a failure for one record does not prevent the attempt for a later   *)
(* one.  The pass asks hasattr(expense, "Ladda upp bild på kvitto") and    *)
(* hasattr(invoice, "Ladda upp fakturan"): these are the aliases of the    *)
(* fields, which the models take as Ladda_upp_bild_på_kvitto and           *)
(* Ladda_upp_fakturan and do not keep as attributes, so that no upload is  *)
(* attempted for any record, with a link or without.                       *)
(***************************************************************************)
CexC28 == (pc = "done" /\ printed = "complete") => attempts = encoded

(***************************************************************************)
(* C29.  SpirisAuth.get_access_token follows a fixed order and returns no  *)
(* token it knows to be expired.  With a cached refresh token and an       *)
(* expires_at that has not passed it returns the cached access token and   *)
(* posts no request; with an expires_at that has passed it first posts a   *)
(* refresh and returns the refreshed token when that succeeds; it          *)
(* exchanges the authorisation code only when there is no usable cache or  *)
(* the refresh has failed; with no usable cache, a failed refresh and no   *)
(* authorisation code it raises ValueError and leaves self.tokens and the  *)
(* token file as they were.  The token responses carry a lifetime of an    *)
(* hour or more.                                                           *)
(***************************************************************************)
ThmC29 ==
    call.f = "get_access_token" =>
        LET tok == call.before
            out == call.out
            cached == "refresh_token" \in DOMAIN tok /\ "expires_at" \in DOMAIN tok
            live == cached /\ call.now < tok.expires_at
            renewed == cached /\ ~live /\ call.refresh.ok
        IN  /\ live =>
                   /\ out.raised = ""
                   /\ out.token = tok.access_token
                   /\ out.requests = <<>>
                   /\ out.tokens = tok
                   /\ call.file_after = call.file
            /\ (cached /\ ~live) =>
                   /\ out.requests # <<>>
                   /\ out.requests[1] = "refresh_token"
            /\ renewed =>
                   /\ out.requests = <<"refresh_token">>
                   /\ out.raised = ""
                   /\ out.token = call.refresh.access_token
            /\ ~cached => \A k \in 1..Len(out.requests) :
                              out.requests[k] # "refresh_token"
            /\ \A k \in 1..Len(out.requests) :
                   out.requests[k] = "authorization_code" =>
                       /\ k = Len(out.requests)
                       /\ ~live /\ ~renewed
                       /\ call.arg # ""
            /\ (~live /\ ~renewed /\ call.arg = "") =>
                   /\ out.raised = "ValueError"
                   /\ out.tokens = tok
                   /\ call.file_after = call.file
                   /\ \A k \in 1..Len(out.requests) :
                          out.requests[k] # "authorization_code"
            /\ out.raised = "" =>
                   /\ out.tokens.access_token = out.token
                   /\ call.now < out.tokens.expires_at

\* the cache had expired, the refresh failed and the authorisation code was
\* exchanged
WitC29 ==
    /\ call.f = "get_access_token"
    /\ "expires_at" \in DOMAIN call.before
    /\ call.now >= call.before.expires_at
    /\ call.out.requests = <<"refresh_token", "authorization_code">>
    /\ call.out.raised = ""
    /\ call.out.token.grant = "authorization_code"

(***************************************************************************)
(* C30.  The legacy generator (src/create_po3.py) and the modular one      *)
(* accept the same rows and give the same lines, the same row count and    *)
(* the same total for every input and the same clock, also for rows with   *)
(* an account type that is neither Plusgiro nor Bankgiro, with a blank     *)
(* text, or with a clearing or account number that is no number.  The      *)
(* legacy generator has no model of the row: it rejects a blank activity,  *)
(* which the modular one encodes; it encodes any account type as Bankgiro  *)
(* and any text as an account number, which the modular one rejects; it    *)
(* writes the texts untrimmed, and raises TypeError on an amount that is a *)
(* text.                                                                   *)
(***************************************************************************)
CexC30 ==
    call.f \in {"expense, by both generators", "invoice, by both generators"}
        => call.legacy = call.modular

====
